---- MODULE Spec2Model ----
(***************************************************************************)
(* Model of the content-acquisition engine of src/downloader.py            *)
(* (UnifiedDownloader and its helpers RateLimiter, RetryManager).          *)
(*                                                                         *)
(* The engine is single-threaded and cooperative, so every component is a  *)
(* sequential state machine whose steps are the code between two           *)
(* suspension points.  Each component has a specification of its own:      *)
(*   SpecFile   UnifiedDownloader._download_file                           *)
(*   SpecRetry  RetryManager.execute_with_retry                            *)
(*   SpecRate   RateLimiter.acquire                                        *)
(*   Spec       one run of a pagination walker (post, like, mix, music)    *)
(* A specification leaves the variables of the other components alone.     *)
(***************************************************************************)
EXTENDS Integers, Sequences, FiniteSets

VARIABLES
    \* ---- _download_file
    url,            \* the primary URL (parameter url)
    fallback_urls,  \* the parameter fallback_urls (<<>> models None and [])
    fileState,      \* save_path on disk: "absent", "partial", "complete"
    fileFrom,       \* the URL whose body save_path holds (0: none)
    existed,        \* whether save_path existed when the call began
    urls_to_try,    \* the candidate list built at lines 723-725
    tryIdx,         \* position of the for loop of line 731 in urls_to_try
    requested,      \* the HTTP GETs issued so far, in order
    headers,        \* self.headers: the names of the headers configured
    dfResult,       \* "none", "true", "false", or "raised" (a BaseException left the call)
    dfpc,           \* "begin", "loop", "done"
    \* ---- RetryManager.execute_with_retry
    max_retries,    \* RetryManager.max_retries
    attempt,        \* the loop variable of line 126
    last_error,     \* "None" or the exception of the latest failed attempt
    calls,          \* the outcome of every invocation of func, in order
    slept,          \* every asyncio.sleep(delay) of line 134, in order
    rtResult,       \* how the call ended: [kind, value]
    rtpc,           \* "call", "sleep", "done"
    \* ---- RateLimiter
    max_per_second, \* RateLimiter.max_per_second
    min_interval,   \* RateLimiter.min_interval, in clock ticks
    last_request,   \* RateLimiter.last_request, in clock ticks
    now,            \* time.time(), in clock ticks of 0.1 s
    acquireStart,   \* when the acquire() in progress was called
    wake_at,        \* when the asyncio.sleep of line 113 is due
    acquired,       \* [start, end] of every completed acquire(), in order
    rlpc,           \* "idle" (no acquire in progress) or "sleeping"
    \* ---- pagination walker (one run, in one scope, for one owner id)
    scope,          \* "post", "like", "mix" or "music"
    max_count,      \* config number.<scope> (0: no limit)
    increase,       \* config increase.<scope>
    start_time,     \* config start_time, a day (0: not set)
    end_time,       \* config end_time, a day (0: not set)
    db,             \* aweme ids the database holds for this scope and owner
    db0,            \* what the database held when the walk began
    succeeded,      \* awemes whose _download_media_files returned True in this walk
    last_item,      \* what the for loop did with the latest aweme: "none", "return",
                    \* "continue", or the call of _download_media_files: "ok", "failed"
    run_no,         \* 1 for the first run of the program, 2 for a later run
    prior,          \* awemes an earlier run downloaded successfully
    cursor,         \* the walker's cursor
    downloaded,     \* the walker's counter of successful downloads
    all_posts,      \* _download_user_posts: the page fetched ahead of the loop
    page,           \* the page the loop is working on
    itemIdx,        \* position of the for loop in page.aweme_list
    fetches,        \* every page request issued: cursor asked, what came back
    stats,          \* DownloadStats
    permit,         \* an acquire() completed since the last network request
    bare_requests,  \* network requests issued with no acquire() of their own (0, 1)
    wpc,            \* "prefetch", "acquire", "fetch", "items", "done"
    \* ---- _check_time_filter, called on its own
    tf_aweme,       \* the aweme passed in (its create_time is CreateTime)
    tf_result,      \* "none" before the call, then "True" or "False"
    \* ---- run() and what it calls, the walkers taken a page at a time
    links,          \* config link, each read as detect_content_type and the
                    \* ID patterns read it
    mode,           \* config mode
    number,         \* config number, the same value for every scope (0: no limit)
    linkIdx,        \* position of the for loop of line 1413
    rstep,          \* where run() is in the body of that loop
    stack,          \* the coroutines run() is awaiting, outermost first
    modeIdx,        \* position of the for loop of line 783
    w_downloaded,   \* downloaded of the walker on top of the stack
    w_pages,        \* pages that walker has requested
    fetched,        \* _download_user_mixes: fetched
    mix_left,       \* _download_user_mixes: mixes of the list page still to come
    mix_more,       \* _download_user_mixes: has_more of the list page
    mix_pages,      \* _download_user_mixes: list pages requested
    walks,          \* every walker run() and download_user_page entered: [link, scope]
    info_calls,     \* calls of _fetch_video_info
    last_single,    \* how the latest download_single_video went
    last_page,      \* what the page request of the latest step gave ("-": none made)
    raised,         \* an exception has left a walker
    rpc,            \* "running", "finished", or "aborted" (an exception left run())
    \* ---- one page fetcher, called on its own
    pf_fetcher,     \* which of the fetchers that build their own request
    pf_cursor,      \* the cursor asked for
    pf_sign,        \* what utils.getXbogus(params) does: "ok" or "raises"
    pf_answer,      \* what the remote end does with the request
    pf_requests,    \* the HTTP GETs the call issued: [x_bogus]
    pf_result,      \* the page the call returned (NonePage for None)
    pf_pc,          \* "idle", "call", "done"
    \* ---- detect_content_type, extract_id_from_url, resolve_short_url,
    \* ---- each called on its own
    u_url,          \* the URL passed in, as the parts the patterns look for
    u_hint,         \* the content_type passed to extract_id_from_url
    u_result,       \* what the call did: [op, kind, value, requests, redirect]
    u_pc,           \* "idle", "call", "done"
    \* ---- the candidate URLs of a video item (_download_media_files)
    m_video,        \* video_info['video']: what play_addr, play_addr_h264
                    \* and download_addr hold (NoAddr or a url_list)
    m_video_url,    \* what _get_no_watermark_url returned
    m_urls_to_try,  \* urls_to_try of the _download_file call for the video
    m_pc,           \* "idle", "call", "done"
    \* ---- _get_best_quality_url called on its own
    q_url_list,     \* the url_list passed in
    q_result,       \* what the call returned (NoImg for None)
    q_pc,           \* "idle", "call", "done"
    \* ---- _download_media_files called on one item, more than once
    mf_info,        \* video_info: [author, desc, create_time, video, images,
                    \* optional]
    mf_now,         \* time.time(), in whole seconds
    mf_disk,        \* the files under save_path: [dir, name]
    mf_calls        \* the calls made: [save_dir, primary, result]

fileVars == <<url, fallback_urls, fileState, fileFrom, existed, urls_to_try,
              tryIdx, requested, headers, dfResult, dfpc>>

retryVars == <<max_retries, attempt, last_error, calls, slept, rtResult, rtpc>>

rateVars == <<max_per_second, min_interval, last_request, now, acquireStart,
              wake_at, acquired, rlpc>>

walkLog == <<db0, succeeded, last_item, run_no, prior>>

\* The walker's variables other than the time window and the statistics.
walkRest == <<scope, max_count, increase, db, cursor, downloaded, all_posts,
              page, itemIdx, fetches, permit, bare_requests, wpc, walkLog>>

walkVars == <<scope, max_count, increase, start_time, end_time, db, cursor,
              downloaded, all_posts, page, itemIdx, fetches, stats, permit,
              bare_requests, wpc, walkLog>>

timeVars == <<tf_aweme, tf_result>>

runVars == <<links, mode, number, linkIdx, rstep, stack, modeIdx, w_downloaded,
             w_pages, fetched, mix_left, mix_more, mix_pages, walks, info_calls,
             last_single, last_page, raised, rpc>>

fetchVars == <<pf_fetcher, pf_cursor, pf_sign, pf_answer, pf_requests, pf_result,
               pf_pc>>

\* The functions the model also calls on their own.
urlVars == <<u_url, u_hint, u_result, u_pc>>

mediaVars == <<m_video, m_video_url, m_urls_to_try, m_pc>>

itemVars == <<q_url_list, q_result, q_pc, mf_info, mf_now, mf_disk, mf_calls>>

callVars == <<fetchVars, urlVars, mediaVars, itemVars>>

vars == <<fileVars, retryVars, rateVars, walkVars, timeVars, callVars, runVars>>

\* ---------------------------------------------------------------- bounds
NumUrls == 3
MaxFallbacks == 2
MaxRetries == 5
MaxAcquires == 3
MaxElapsed == 21
NumAwemes == 2
MaxFetches == 2
MaxLimit == 1
MaxMediaRequests == 2
MaxDay == 3
MaxLinks == 2
MaxPages == 2
MaxPageItems == 1
MaxMixes == 1
MaxParts == 2
MaxAddrUrls == 2

\* ---------------------------------------------------------------- helpers
Urls == 1..NumUrls

SeqsUpTo(S, n) == UNION {[1..k -> S] : k \in 0..n}

\* ----------------------------------------------------------------------
\* Each component at rest: the state a specification gives the components
\* it does not run.
\* ----------------------------------------------------------------------

\* apiproxy/douyin/__init__.py lines 7-20 and downloader.py lines 155-157:
\* the headers a new UnifiedDownloader has (those of no interest to the
\* model are left out).
douyin_headers == {"User-Agent", "referer", "accept-encoding"}

\* _download_file before a call.
FileIdle ==
    /\ headers = douyin_headers
    /\ url = 1
    /\ fallback_urls = <<>>
    /\ fileState = "absent"
    /\ existed = FALSE
    /\ fileFrom = 0
    /\ urls_to_try = <<>>
    /\ tryIdx = 1
    /\ requested = <<>>
    /\ dfResult = "none"
    /\ dfpc = "begin"

\* The retry manager before a call (line 119: max_retries defaults to 3).
RetryIdle ==
    /\ max_retries = 3
    /\ attempt = 0
    /\ last_error = "None"
    /\ calls = <<>>
    /\ slept = <<>>
    /\ rtResult = [kind |-> "none", value |-> "None"]
    /\ rtpc = "call"

\* One second, in clock ticks: the clock of the model counts tenths of a
\* second (line 105: min_interval = 1.0 / max_per_second).
Second == 10

\* The rate limiter as constructed (lines 103-106, 149: max_per_second=2).
\* The clock starts later than min_interval after time 0, as time.time()
\* does, so that the first acquire() never waits.
RateIdle ==
    /\ max_per_second = 2
    /\ min_interval = Second \div 2
    /\ last_request = 0
    /\ now = 2 * Second
    /\ acquireStart = 0
    /\ wake_at = 0
    /\ acquired = <<>>
    /\ rlpc = "idle"

\* A page as the walkers read it: ok is FALSE for None; a missing has_more
\* reads as FALSE and a missing cursor as 0 (data.get(..., 0)).
NonePage == [ok |-> FALSE, aweme_list |-> <<>>, has_more |-> FALSE, cursor |-> 0]

\* lines 75-79: DownloadStats()
NewStats == [total |-> 0, success |-> 0, failed |-> 0, skipped |-> 0]

\* No walker running (the configured time window apart).
WalkerAtRest ==
    /\ scope = "post"
    /\ max_count = 0
    /\ increase = FALSE
    /\ db = {}
    /\ db0 = {}
    /\ succeeded = {}
    /\ last_item = "none"
    /\ run_no = 1
    /\ prior = {}
    /\ cursor = 0
    /\ downloaded = 0
    /\ all_posts = NonePage
    /\ page = NonePage
    /\ itemIdx = 1
    /\ fetches = <<>>
    /\ stats = NewStats
    /\ permit = FALSE
    /\ bare_requests = 0
    /\ wpc = "done"

\* No walker running and no time window configured.
WalkIdle ==
    /\ start_time = 0
    /\ end_time = 0
    /\ WalkerAtRest

\* _check_time_filter not called.
TimeIdle ==
    /\ tf_aweme = 1
    /\ tf_result = "none"

\* No page fetcher called on its own.
FetchIdle ==
    /\ pf_fetcher = "_fetch_user_likes"
    /\ pf_cursor = 0
    /\ pf_sign = "ok"
    /\ pf_answer = [answered |-> FALSE, status_code |-> 0, aweme_list |-> <<>>,
                    has_more |-> FALSE, cursor |-> 0]
    /\ pf_requests = <<>>
    /\ pf_result = NonePage
    /\ pf_pc = "idle"

\* What u_result holds before a call.
NoCall == [op |-> "none", kind |-> "none", value |-> "None", requests |-> 0,
           redirect |-> "none"]

\* None of the URL functions called on its own.
UrlIdle ==
    /\ u_url = <<>>
    /\ u_hint = "None"
    /\ u_result = NoCall
    /\ u_pc = "idle"

\* A media URL: what it points at, and whether it holds the words the
\* rewriting of lines 666-667 replaces ('playwm', '720p').
NoUrl == [name |-> "None", wm |-> FALSE]

\* What video.get(key) gives for one of the three address keys: nothing
\* (the key is missing, or holds None or an empty dictionary, all of them
\* falsy), or a dictionary with other fields (uri, width, ...) and a
\* url_list that may be empty.
NoAddr == [none |-> TRUE, url_list |-> <<>>]

\* The candidate URLs of no video asked for.
MediaIdle ==
    /\ m_video = [play_addr |-> NoAddr, play_addr_h264 |-> NoAddr, download_addr |-> NoAddr]
    /\ m_video_url = NoUrl
    /\ m_urls_to_try = <<>>
    /\ m_pc = "idle"

\* An image or cover URL: what it points at, and the quality keywords of
\* line 688 it contains.
NoImg == [name |-> "None", kw |-> {}]

\* video_info.get('create_time') of an item without one
NoCreateTime == [kind |-> "none", fmt |-> "", t |-> 0]

\* No image URL asked for.
QualityIdle ==
    /\ q_url_list = <<>>
    /\ q_result = NoImg
    /\ q_pc = "idle"

\* No item handed to _download_media_files.
MediaFilesIdle ==
    /\ mf_info = [author |-> "unknown", desc |-> "", create_time |-> NoCreateTime,
                  video |-> [play_addr |-> NoAddr, play_addr_h264 |-> NoAddr,
                             download_addr |-> NoAddr],
                  images |-> <<>>, optional |-> FALSE]
    /\ mf_now = 0
    /\ mf_disk = {}
    /\ mf_calls = <<>>

ItemIdle == QualityIdle /\ MediaFilesIdle

CallsIdle == FetchIdle /\ UrlIdle /\ MediaIdle /\ ItemIdle

\* run() not called: no link configured (lines 1393-1399).
RunIdle ==
    /\ links = <<>>
    /\ mode = <<"post">>
    /\ number = 0
    /\ linkIdx = 1
    /\ rstep = "dispatch"
    /\ stack = <<>>
    /\ modeIdx = 1
    /\ w_downloaded = 0
    /\ w_pages = 0
    /\ fetched = 0
    /\ mix_left = 0
    /\ mix_more = FALSE
    /\ mix_pages = 0
    /\ walks = <<>>
    /\ info_calls = 0
    /\ last_single = "none"
    /\ last_page = "-"
    /\ raised = FALSE
    /\ rpc = "finished"

\* ======================================================================
\* RetryManager                                         (lines 117-135)
\* ======================================================================

\* line 121: self.retry_delays = [1, 2, 5]
retry_delays == <<1, 2, 5>>

\* What one invocation of func does: it returns ("ok") or raises one of
\* these exceptions.
Errors == {"ConnectionError", "TimeoutError", "ValueError"}

Min(a, b) == IF a < b THEN a ELSE b

\* line 132: self.retry_delays[min(attempt, len(self.retry_delays) - 1)]
\* (the list is indexed from 0, the tuple from 1; first, a variant that
\* always takes the first delay)
retry_delay_first_only(a) == retry_delays[1]

retry_delay(a) == retry_delays[Min(a, Len(retry_delays) - 1) + 1]

\* line 131: attempt < self.max_retries - 1
sleeps_after(a) == a < max_retries - 1

\* lines 126-133: one iteration of "for attempt in range(self.max_retries)":
\* func is awaited; its result is returned, or its exception is kept in
\* last_error and the iteration goes on to the sleep or to the next attempt.
execute_with_retry_attempt ==
    /\ rtpc = "call"
    /\ attempt < max_retries
    /\ \E outcome \in {"ok"} \cup Errors :
        /\ calls' = Append(calls, outcome)
        /\ IF outcome = "ok"
           THEN /\ rtResult' = [kind |-> "returned", value |-> "ok"]
                /\ rtpc' = "done"
                /\ UNCHANGED <<last_error, attempt>>
           ELSE /\ last_error' = outcome
                /\ IF sleeps_after(attempt)
                   THEN rtpc' = "sleep" /\ UNCHANGED attempt
                   ELSE rtpc' = "call" /\ attempt' = attempt + 1
                /\ UNCHANGED rtResult
    /\ UNCHANGED <<max_retries, slept>>
    /\ UNCHANGED <<fileVars, rateVars, walkVars, timeVars, callVars,
                   runVars>>

\* lines 132-134: the wait before the next attempt.
execute_with_retry_sleep ==
    /\ rtpc = "sleep"
    /\ slept' = Append(slept, [after |-> attempt, delay |-> retry_delay(attempt)])
    /\ attempt' = attempt + 1
    /\ rtpc' = "call"
    /\ UNCHANGED <<max_retries, last_error, calls, rtResult>>
    /\ UNCHANGED <<fileVars, rateVars, walkVars, timeVars, callVars,
                   runVars>>

\* line 135: raise last_error.  With no attempt made last_error is still
\* None, and "raise None" raises a TypeError.
execute_with_retry_raise ==
    /\ rtpc = "call"
    /\ attempt >= max_retries
    /\ rtResult' = [kind |-> "raised",
                    value |-> IF last_error = "None" THEN "TypeError" ELSE last_error]
    /\ rtpc' = "done"
    /\ UNCHANGED <<max_retries, attempt, last_error, calls, slept>>
    /\ UNCHANGED <<fileVars, rateVars, walkVars, timeVars, callVars,
                   runVars>>

\* line 119: any integer is accepted as max_retries (config retry_times).
RetryInit ==
    /\ WalkIdle
    /\ TimeIdle
    /\ CallsIdle
    /\ RunIdle
    /\ FileIdle
    /\ RateIdle
    /\ max_retries \in 0..MaxRetries
    /\ attempt = 0
    /\ last_error = "None"
    /\ calls = <<>>
    /\ slept = <<>>
    /\ rtResult = [kind |-> "none", value |-> "None"]
    /\ rtpc = "call"

RetryNext ==
    \/ execute_with_retry_attempt
    \/ execute_with_retry_sleep
    \/ execute_with_retry_raise

SpecRetry == RetryInit /\ [][RetryNext]_vars

\* ---------------------------------------------------------------------
\* Properties of execute_with_retry
\* ---------------------------------------------------------------------

EveryAttemptRaised == \A k \in 1..Len(calls) : calls[k] # "ok"

\* C6: func is invoked at most max_retries times; the first invocation
\* that succeeds ends the call and its result is returned; when every
\* attempt raises, the failure of the last attempt is re-raised (for every
\* max_retries, 0 and 1 included).
C6_RetryContract ==
    /\ Len(calls) <= max_retries
    /\ \A k \in 1..Len(calls) :
          calls[k] = "ok" =>
              (k = Len(calls) /\ rtpc = "done" /\ rtResult.kind = "returned")
    /\ (rtpc = "done" /\ EveryAttemptRaised) =>
          /\ rtResult.kind = "raised"
          /\ Len(calls) > 0
          /\ rtResult.value = calls[Len(calls)]

\* C7: after failed attempt k (from 0) the wait is retry_delays[min(k, 2)]
\* of [1, 2, 5]; every attempt but the first is preceded by the wait of
\* the attempt before it; the waits never decrease; there is no wait after
\* the final failed attempt.
C7_BackoffSchedule ==
    /\ \A i \in 1..Len(slept) :
          /\ slept[i].after = i - 1
          /\ slept[i].delay = (IF i - 1 = 0 THEN 1 ELSE IF i - 1 = 1 THEN 2 ELSE 5)
          /\ slept[i].after < max_retries - 1
          /\ calls[i] # "ok"
    /\ \A i \in 1..(Len(slept) - 1) : slept[i].delay <= slept[i + 1].delay
    /\ Len(calls) <= Len(slept) + 1
    /\ (rtpc = "sleep") => Len(slept) = Len(calls) - 1
    /\ (rtpc = "done" /\ rtResult.kind = "raised" /\ Len(calls) > 0)
            => Len(slept) = Len(calls) - 1

C7_Witness ==
    /\ rtpc = "done"
    /\ rtResult.kind = "raised"
    /\ Len(calls) = 5
    /\ Len(slept) = 4
    /\ slept[3].delay = 5
    /\ slept[4].delay = 5


\* ======================================================================
\* RateLimiter                                          (lines 101-114)
\* ======================================================================

\* line 113: the time to sleep, given the time since the last request
\* (first, a variant that does not sleep)
sleep_for_nothing(time_since_last) == 0

sleep_for(time_since_last) == min_interval - time_since_last

\* Time passes, whether the caller works, waits or sleeps.
Tick ==
    /\ now < 2 * Second + MaxElapsed
    /\ now' = now + 1
    /\ UNCHANGED <<max_per_second, min_interval, last_request, acquireStart,
                   wake_at, acquired, rlpc>>
    /\ UNCHANGED <<fileVars, retryVars, walkVars, timeVars, callVars,
                   runVars>>

\* lines 110-114, called while no acquire() is in progress (every caller of
\* the engine awaits acquire() before it goes on): the clock is read, and
\* either the sleep begins or the permit is given at once.
acquire_begin ==
    /\ rlpc = "idle"
    /\ Len(acquired) < MaxAcquires
    /\ LET current == now
           time_since_last == current - last_request
       IN  IF time_since_last < min_interval
           THEN /\ rlpc' = "sleeping"
                /\ acquireStart' = current
                /\ wake_at' = current + sleep_for(time_since_last)
                /\ UNCHANGED <<last_request, acquired>>
           ELSE /\ last_request' = now
                /\ acquired' = Append(acquired, [start |-> current, end |-> now])
                /\ UNCHANGED <<rlpc, acquireStart, wake_at>>
    /\ UNCHANGED <<max_per_second, min_interval, now>>
    /\ UNCHANGED <<fileVars, retryVars, walkVars, timeVars, callVars,
                   runVars>>

\* lines 113-114: asyncio.sleep returns, at its due time or later, and the
\* clock is read again.
acquire_wake ==
    /\ rlpc = "sleeping"
    /\ now >= wake_at
    /\ last_request' = now
    /\ acquired' = Append(acquired, [start |-> acquireStart, end |-> now])
    /\ rlpc' = "idle"
    /\ UNCHANGED <<max_per_second, min_interval, now, acquireStart, wake_at>>
    /\ UNCHANGED <<fileVars, retryVars, walkVars, timeVars, callVars,
                   runVars>>

\* lines 103-106
RateInit ==
    /\ WalkIdle
    /\ TimeIdle
    /\ CallsIdle
    /\ RunIdle
    /\ FileIdle
    /\ RetryIdle
    /\ max_per_second \in {1, 2, 5}
    /\ min_interval = Second \div max_per_second
    /\ last_request = 0
    /\ now = 2 * Second
    /\ acquireStart = 0
    /\ wake_at = 0
    /\ acquired = <<>>
    /\ rlpc = "idle"

RateNext ==
    \/ Tick
    \/ acquire_begin
    \/ acquire_wake

SpecRate == RateInit /\ [][RateNext]_vars

\* ---------------------------------------------------------------------
\* Properties of RateLimiter.acquire
\* ---------------------------------------------------------------------

\* C8: any two completions of acquire() are at least min_interval =
\* 1/max_per_second apart, so N consecutive calls with max_per_second = 2
\* take at least (N-1) x 0.5 s from the first call to the last completion.
C8_MinimumSpacing ==
    /\ min_interval * max_per_second = Second
    /\ \A i, j \in 1..Len(acquired) :
          i < j => acquired[j].end - acquired[i].end >= (j - i) * min_interval
    /\ (max_per_second = 2 /\ Len(acquired) > 0) =>
          2 * (acquired[Len(acquired)].end - acquired[1].start)
              >= (Len(acquired) - 1) * Second

C8_Witness ==
    /\ max_per_second = 2
    /\ Len(acquired) = 3
    /\ acquired[2].start = acquired[1].end + 2
    /\ acquired[2].end = acquired[1].end + 5
    /\ acquired[3].end - acquired[1].start = Second

\* ======================================================================
\* UnifiedDownloader._download_file                    (lines 715-754)
\* ======================================================================

\* What one GET of a candidate can answer: a status, a transport error
\* raised by session.get ("exc"), or the cancellation of the task while it
\* awaits the answer ("cancelled": a CancelledError, which no
\* "except Exception" catches).  "404" stands for every status other than
\* 200 and 403.
Responses == {"200", "403", "404", "exc", "cancelled"}

\* What happens to a 200 answer between response.read() and the end of
\* f.write(content).  read_failed: response.read() raises; open_failed:
\* open(save_path, 'wb') raises before the file is created; write_failed:
\* f.write raises an OSError after open() created (or truncated) the file;
\* interrupted: a KeyboardInterrupt arrives during the write.
Bodies == {"ok", "read_failed", "open_failed", "write_failed", "interrupted"}

\* line 718: save_path.exists()  (first, the call without this test)
save_path_exists_never == FALSE

save_path_exists == fileState # "absent"

\* lines 723-725: [url] + [u for u in fallback_urls if u != url]
\* (first, the list without the filter)
UrlsToTry_keep_duplicates(u, fb) == <<u>> \o fb

UrlsToTry(u, fb) == <<u>> \o SelectSeq(fb, LAMBDA x : x # u)

\* lines 734-744: the branch taken for an answered status.  try_url is
\* compared by value with the last candidate (try_url != urls_to_try[-1]).
\* "write": read the body and write it; "sleep_continue": wait 0.5 s and go
\* on; "log_continue": log the status and go on.  No branch of the code
\* leaves the loop with failure ("return_false"); the two variants before
\* on_status give up on a 403, and write whatever the status is.
on_status_403_gives_up(status, try_url, last_url) ==
    IF status = "200" THEN "write"
    ELSE IF status = "403" THEN "return_false"
    ELSE "log_continue"

on_status_any_status_writes(status, try_url, last_url) ==
    IF status = "403" /\ try_url # last_url THEN "sleep_continue"
    ELSE "write"

on_status(status, try_url, last_url) ==
    IF status = "200" THEN "write"
    ELSE IF status = "403" /\ try_url # last_url THEN "sleep_continue"
    ELSE "log_continue"

\* self.headers when _download_file is called: a copy of douyin_headers
\* (line 155), with the Cookie that _initialize_cookies_and_headers sets
\* (lines 220, 236) or without it.  douyin_headers is a dictionary of the
\* module apiproxy.douyin that its other users write to as well (line
\* 239), so the referer may stand in it under another spelling.
HeaderSets ==
    {douyin_headers,
     douyin_headers \cup {"Cookie"},
     (douyin_headers \ {"referer"}) \cup {"Referer", "Cookie"},
     (douyin_headers \ {"referer"}) \cup {"REFERER"}}

\* str.lower() of a header name
Lower(k) ==
    CASE k \in {"referer", "Referer", "REFERER"} -> "referer"
      [] k = "Cookie" -> "cookie"
      [] k = "User-Agent" -> "user-agent"
      [] OTHER -> k

\* line 728: {k: v for k, v in self.headers.items() if k.lower() != 'referer'}
\* (first, a variant that compares the name as it is written)
dl_headers_exact_case(h) == {k \in h : k # "referer"}

dl_headers(h) == {k \in h : Lower(k) # "referer"}

\* lines 717-728: the existing-file shortcut, else the candidate list.
download_file_begin ==
    /\ dfpc = "begin"
    /\ IF save_path_exists
       THEN /\ dfResult' = "true"
            /\ dfpc' = "done"
            /\ UNCHANGED urls_to_try
       ELSE /\ urls_to_try' = UrlsToTry(url, fallback_urls)
            /\ dfpc' = "loop"
            /\ UNCHANGED dfResult
    /\ UNCHANGED <<url, fallback_urls, fileState, fileFrom, existed, tryIdx, requested,
                   headers>>
    /\ UNCHANGED <<retryVars, rateVars, walkVars, timeVars, callVars,
                   runVars>>

\* lines 731-748: one iteration of the loop over urls_to_try: the GET of
\* the candidate and what follows from its answer.
download_file_try ==
    /\ dfpc = "loop"
    /\ tryIdx <= Len(urls_to_try)
    /\ \E status \in Responses, body \in Bodies :
        LET try_url == urls_to_try[tryIdx]
            last_url == urls_to_try[Len(urls_to_try)]
            branch == IF status = "exc" THEN "except"
                      ELSE IF status = "cancelled" THEN "raise"
                      ELSE on_status(status, try_url, last_url)
            b == IF branch = "write" THEN body ELSE "none"
        IN  /\ (branch # "write") => body = "ok"
            /\ requested' = Append(requested,
                    [url |-> try_url, status |-> status, body |-> b,
                     slept |-> branch = "sleep_continue",
                     headers |-> dl_headers(headers)])
            /\ CASE branch = "write" /\ b = "ok" ->
                        /\ fileState' = "complete"
                        /\ fileFrom' = try_url
                        /\ dfResult' = "true"
                        /\ dfpc' = "done"
                        /\ UNCHANGED tryIdx
                 [] branch = "write" /\ b = "interrupted" ->
                        /\ fileState' = "partial"
                        /\ fileFrom' = try_url
                        /\ dfResult' = "raised"
                        /\ dfpc' = "done"
                        /\ UNCHANGED tryIdx
                 [] branch = "write" /\ b = "write_failed" ->
                        /\ fileState' = "partial"
                        /\ fileFrom' = try_url
                        /\ tryIdx' = tryIdx + 1
                        /\ UNCHANGED <<dfResult, dfpc>>
                 [] branch = "raise" ->
                        /\ dfResult' = "raised"
                        /\ dfpc' = "done"
                        /\ UNCHANGED <<fileState, fileFrom, tryIdx>>
                 [] branch = "return_false" ->
                        /\ dfResult' = "false"
                        /\ dfpc' = "done"
                        /\ UNCHANGED <<fileState, fileFrom, tryIdx>>
                 [] OTHER ->
                        /\ tryIdx' = tryIdx + 1
                        /\ UNCHANGED <<fileState, fileFrom, dfResult, dfpc>>
    /\ UNCHANGED <<url, fallback_urls, existed, urls_to_try, headers>>
    /\ UNCHANGED <<retryVars, rateVars, walkVars, timeVars, callVars,
                   runVars>>

\* line 750: the loop ran out of candidates.
download_file_exhausted ==
    /\ dfpc = "loop"
    /\ tryIdx > Len(urls_to_try)
    /\ dfResult' = "false"
    /\ dfpc' = "done"
    /\ UNCHANGED <<url, fallback_urls, fileState, fileFrom, existed, urls_to_try,
                   tryIdx, requested, headers>>
    /\ UNCHANGED <<retryVars, rateVars, walkVars, timeVars, callVars,
                   runVars>>

FileInit ==
    /\ WalkIdle
    /\ TimeIdle
    /\ CallsIdle
    /\ RunIdle
    /\ RetryIdle
    /\ RateIdle
    /\ url \in Urls
    /\ fallback_urls \in SeqsUpTo(Urls, MaxFallbacks)
    /\ headers \in HeaderSets
    /\ fileState \in {"absent", "complete"}
    /\ existed = (fileState # "absent")
    /\ fileFrom = 0
    /\ urls_to_try = <<>>
    /\ tryIdx = 1
    /\ requested = <<>>
    /\ dfResult = "none"
    /\ dfpc = "begin"

FileNext ==
    \/ download_file_begin
    \/ download_file_try
    \/ download_file_exhausted

SpecFile == FileInit /\ [][FileNext]_vars

\* ---------------------------------------------------------------------
\* Properties of _download_file
\* ---------------------------------------------------------------------

\* The candidate sequence the call is to follow: the primary, then the
\* fallbacks that differ from it, in their order.
ExpectedCandidates == <<url>> \o SelectSeq(fallback_urls, LAMBDA x : x # url)

RequestedInCandidateOrder ==
    /\ Len(requested) <= Len(ExpectedCandidates)
    /\ \A k \in 1..Len(requested) : requested[k].url = ExpectedCandidates[k]

\* A non-200 status or a transport error.
Failed(r) == r.status \in {"403", "404", "exc"}

EveryRequestFailed == \A k \in 1..Len(requested) : Failed(requested[k])

\* C1: a call for a destination path that already exists returns success
\* and issues no HTTP request, whatever the primary and fallback URLs are.
C1_ExistingFileSkipsNetwork ==
    existed => /\ requested = <<>>
               /\ dfpc = "done" => dfResult = "true"

C1_Witness ==
    /\ existed
    /\ dfpc = "done"
    /\ \E k \in 1..Len(fallback_urls) : fallback_urls[k] # url

\* C2: when the primary and every fallback answer with a non-200 status,
\* the call returns failure and no file exists at the destination.
C2_AllNon200FailsWithoutFile ==
    (dfpc = "done" /\ ~existed /\ EveryRequestFailed)
        => (dfResult = "false" /\ fileState = "absent")

C2_Witness ==
    /\ dfpc = "done"
    /\ ~existed
    /\ Len(requested) = 3
    /\ \A k \in 1..Len(requested) : requested[k].status \in {"403", "404"}

C5_NoPartialFileAtDestination == fileState # "partial"

RefererNames == {"referer", "Referer", "REFERER"}

\* C33: every GET of _download_file carries no referer header, in any
\* letter case, and carries every other header of self.headers, the
\* Cookie among them.
C33_NoRefererOnMediaRequests ==
    \A k \in 1..Len(requested) :
        /\ requested[k].headers \cap RefererNames = {}
        /\ headers \ RefererNames \subseteq requested[k].headers
        /\ requested[k].headers \subseteq headers

C33_Witness ==
    /\ "Referer" \in headers
    /\ Len(requested) = 2
    /\ requested[1].status = "403"
    /\ requested[2].headers = {"User-Agent", "accept-encoding", "Cookie"}


\* ======================================================================
\* The pagination walkers
\*   _download_user_posts (797-886)   _download_user_likes (928-994)
\*   _download_mix_by_id (1162-1188)  download_music (1251-1286)
\* One run of one walker, for one owner id (sec_uid, mix_id or music_id).
\* ======================================================================

Scopes == {"post", "like", "mix", "music"}

\* The awemes the server may list.  An aweme is known by its aweme_id, a
\* numeric string; its create_time is that of CreateTime.
AwemeIds == 1..NumAwemes

\* An aweme_list: awemes in the server's order, none listed twice in a page.
AwemeLists ==
    {q \in SeqsUpTo(AwemeIds, NumAwemes) :
        \A i, j \in 1..Len(q) : i # j => q[i] # q[j]}

\* Cursor values: 0 is the start cursor (and what a missing cursor reads
\* as), 1 is any other cursor.
Cursors == {0, 1}

\* status_code of a response: 0, or an error code of the API.
StatusCodes == {0, 8}

\* What the remote end does with one page request.  answered is FALSE for
\* a transport error, a status other than 200, an empty body or a body that
\* is not JSON; otherwise the JSON document carries these fields.
Answers ==
    {[answered |-> FALSE, status_code |-> 0, aweme_list |-> <<>>,
      has_more |-> FALSE, cursor |-> 0]}
    \cup [answered : {TRUE}, status_code : StatusCodes, aweme_list : AwemeLists,
          has_more : BOOLEAN, cursor : Cursors]

AsPage(a) == [ok |-> TRUE, aweme_list |-> a.aweme_list,
              has_more |-> a.has_more, cursor |-> a.cursor]

\* lines 888-926: Douyin.getUserInfo gives the whole list; a non-empty list
\* is wrapped as one page with has_more False and the cursor asked for.
fetch_user_posts(a, c) ==
    IF a.answered /\ a.aweme_list # <<>>
    THEN [ok |-> TRUE, aweme_list |-> a.aweme_list, has_more |-> FALSE, cursor |-> c]
    ELSE NonePage

\* lines 996-1050: None unless the document has status_code 0.
fetch_user_likes(a, c) ==
    IF a.answered /\ a.status_code = 0 THEN AsPage(a) ELSE NonePage

\* lines 1190-1237: the document as it is (status_code is not looked at).
fetch_mix_awemes(a, c) == IF a.answered THEN AsPage(a) ELSE NonePage

\* lines 1291-1337: the document as it is.
fetch_music_awemes(a, c) == IF a.answered THEN AsPage(a) ELSE NonePage

fetch_page(sc, a, c) ==
    CASE sc = "post" -> fetch_user_posts(a, c)
      [] sc = "like" -> fetch_user_likes(a, c)
      [] sc = "mix" -> fetch_mix_awemes(a, c)
      [] sc = "music" -> fetch_music_awemes(a, c)

\* create_time of an aweme, in half days: day d begins at 2 * d.
CreateTime(id) == id + 2

DayBegin(d) == 2 * d

\* The configured start_time and end_time: none, or both on day 2.
TimeWindows == {<<0, 0>>, <<2, 2>>}

\* lines 1339-1378 (every aweme of the model has a parseable create_time)
check_time_filter(id) ==
    IF start_time = 0 /\ end_time = 0 THEN TRUE
    ELSE IF start_time # 0 /\ CreateTime(id) < DayBegin(start_time) THEN FALSE
    ELSE IF end_time # 0 /\ CreateTime(id) > DayBegin(end_time) THEN FALSE
    ELSE TRUE

\* lines 356-380, with the database enabled (config database, default True)
\* (first, a variant that never finds a record)
should_skip_increment_never(context, id) == FALSE

should_skip_increment(context, id) ==
    IF context \in {"post", "like", "mix", "music"} /\ increase
    THEN id \in db
    ELSE FALSE

\* lines 382-404: the insert is made whatever the increase flag is.
record_increment(context, id) == db \cup {id}

\* The network requests of a step: each uses up the permit of the latest
\* acquire(); one issued with no permit left is a request with no
\* acquire() of its own.
PermitAfter(n) == IF n = 0 THEN permit ELSE FALSE

BareAfter(n) ==
    IF n = 0 THEN bare_requests
    ELSE IF n = 1 /\ permit THEN bare_requests
    ELSE 1

\* lines 850, 964, 1271: the count limit of the scope is reached.
\* (first, a variant that stops one aweme late)
limit_reached_late == max_count > 0 /\ downloaded > max_count

limit_reached == max_count > 0 /\ downloaded >= max_count

\* lines 881, 990, 1184, 1281: "if not data.get('has_more'): break"
\* (first, a variant that never breaks)
more_pages_always(p) == TRUE

more_pages(p) == p.has_more

\* lines 805-820: _download_user_posts fetches cursor 0 before its loop.
user_posts_prefetch ==
    /\ wpc = "prefetch"
    /\ \E a \in Answers :
        /\ all_posts' = fetch_user_posts(a, 0)
        /\ fetches' = Append(fetches, [cursor |-> 0, ok |-> all_posts'.ok,
                                       has_more |-> all_posts'.has_more])
    /\ permit' = PermitAfter(1)
    /\ bare_requests' = BareAfter(1)
    /\ wpc' = "acquire"
    /\ UNCHANGED <<scope, max_count, increase, start_time, end_time, db, cursor,
                   downloaded, page, itemIdx, stats>>
    /\ UNCHANGED walkLog
    /\ UNCHANGED <<fileVars, retryVars, rateVars, timeVars, callVars,
                   runVars>>

\* lines 833, 951, 1170, 1262: await self.rate_limiter.acquire()
walker_acquire ==
    /\ wpc = "acquire"
    /\ permit' = TRUE
    /\ wpc' = "fetch"
    /\ UNCHANGED <<scope, max_count, increase, start_time, end_time, db, cursor,
                   downloaded, all_posts, page, itemIdx, fetches, stats,
                   bare_requests>>
    /\ UNCHANGED walkLog
    /\ UNCHANGED <<fileVars, retryVars, rateVars, timeVars, callVars,
                   runVars>>

\* After the page is in: None or an empty aweme_list ends the walk
\* (lines 841-846, 955-960, 1172-1177, 1264-1268).
\* (first, a variant that asks for the next page without working on the
\* awemes of this one)
AfterFetch_skips_items(p) ==
    IF ~p.ok \/ p.aweme_list = <<>> THEN "done" ELSE "acquire"

AfterFetch(p) == IF ~p.ok \/ p.aweme_list = <<>> THEN "done" ELSE "items"

\* lines 836-838: the page fetched ahead is used for cursor 0, once.
user_posts_reuse ==
    /\ wpc = "fetch"
    /\ scope = "post"
    /\ all_posts.ok /\ cursor = 0
    /\ page' = all_posts
    /\ all_posts' = NonePage
    /\ itemIdx' = 1
    /\ wpc' = AfterFetch(page')
    /\ UNCHANGED <<scope, max_count, increase, start_time, end_time, db, cursor,
                   downloaded, fetches, stats, permit, bare_requests>>
    /\ UNCHANGED walkLog
    /\ UNCHANGED <<fileVars, retryVars, rateVars, timeVars, callVars,
                   runVars>>

\* lines 840, 954, 1171, 1263: the page of the current cursor is requested.
walker_fetch ==
    /\ wpc = "fetch"
    /\ ~(scope = "post" /\ all_posts.ok /\ cursor = 0)
    /\ Len(fetches) < MaxFetches
    /\ \E a \in Answers :
        /\ page' = fetch_page(scope, a, cursor)
        /\ fetches' = Append(fetches, [cursor |-> cursor, ok |-> page'.ok,
                                       has_more |-> page'.has_more])
    /\ permit' = PermitAfter(1)
    /\ bare_requests' = BareAfter(1)
    /\ itemIdx' = 1
    /\ wpc' = AfterFetch(page')
    /\ UNCHANGED <<scope, max_count, increase, start_time, end_time, db, cursor,
                   downloaded, all_posts, stats>>
    /\ UNCHANGED walkLog
    /\ UNCHANGED <<fileVars, retryVars, rateVars, timeVars, callVars,
                   runVars>>

\* lines 871-878, 982-987, 1277-1279: the database after the download of
\* one aweme: _record_increment is called in the success branch only
\* (first, a variant that calls it whatever the result).
recorded_after_any_result(context, id, success) == record_increment(context, id)

recorded_after(context, id, success) ==
    IF success THEN record_increment(context, id) ELSE db

\* _download_media_files(aweme) has returned: the walk's log of results.
LogResult(id, success) ==
    /\ succeeded' = IF success THEN succeeded \cup {id} ELSE succeeded
    /\ last_item' = IF success THEN "ok" ELSE "failed"
    /\ UNCHANGED <<db0, run_no, prior>>

\* lines 849-878: one aweme of the page, in _download_user_posts.
\* _download_media_files (567-652) issues any number of requests and
\* reports success or failure.
user_posts_item ==
    /\ wpc = "items" /\ scope = "post"
    /\ itemIdx <= Len(page.aweme_list)
    /\ LET aweme == page.aweme_list[itemIdx]
       IN  IF limit_reached
           THEN /\ wpc' = "done"
                /\ last_item' = "return"
                /\ UNCHANGED <<itemIdx, downloaded, stats, db, permit, bare_requests>>
                /\ UNCHANGED <<db0, succeeded, run_no, prior>>
           ELSE IF ~check_time_filter(aweme) \/ should_skip_increment("post", aweme)
           THEN /\ itemIdx' = itemIdx + 1
                /\ last_item' = "continue"
                /\ UNCHANGED <<wpc, downloaded, stats, db, permit, bare_requests>>
                /\ UNCHANGED <<db0, succeeded, run_no, prior>>
           ELSE \E success \in BOOLEAN, n \in 0..MaxMediaRequests :
                /\ permit' = PermitAfter(n)
                /\ bare_requests' = BareAfter(n)
                /\ itemIdx' = itemIdx + 1
                /\ downloaded' = IF success THEN downloaded + 1 ELSE downloaded
                /\ stats' = IF success
                            THEN [stats EXCEPT !.success = @ + 1]
                            ELSE [stats EXCEPT !.failed = @ + 1]
                /\ db' = recorded_after("post", aweme, success)
                /\ LogResult(aweme, success)
                /\ UNCHANGED wpc
    /\ UNCHANGED <<scope, max_count, increase, start_time, end_time, cursor,
                   all_posts, page, fetches>>
    /\ UNCHANGED <<fileVars, retryVars, rateVars, timeVars, callVars,
                   runVars>>

\* lines 963-987: one aweme of the page, in _download_user_likes.
user_likes_item ==
    /\ wpc = "items" /\ scope = "like"
    /\ itemIdx <= Len(page.aweme_list)
    /\ LET aweme == page.aweme_list[itemIdx]
       IN  IF limit_reached
           THEN /\ wpc' = "done"
                /\ last_item' = "return"
                /\ UNCHANGED <<itemIdx, downloaded, db, permit, bare_requests>>
                /\ UNCHANGED <<db0, succeeded, run_no, prior>>
           ELSE IF ~check_time_filter(aweme) \/ should_skip_increment("like", aweme)
           THEN /\ itemIdx' = itemIdx + 1
                /\ last_item' = "continue"
                /\ UNCHANGED <<wpc, downloaded, db, permit, bare_requests>>
                /\ UNCHANGED <<db0, succeeded, run_no, prior>>
           ELSE \E success \in BOOLEAN, n \in 0..MaxMediaRequests :
                /\ permit' = PermitAfter(n)
                /\ bare_requests' = BareAfter(n)
                /\ itemIdx' = itemIdx + 1
                /\ downloaded' = IF success THEN downloaded + 1 ELSE downloaded
                /\ db' = recorded_after("like", aweme, success)
                /\ LogResult(aweme, success)
                /\ UNCHANGED wpc
    /\ UNCHANGED <<scope, max_count, increase, start_time, end_time, cursor,
                   all_posts, page, fetches, stats>>
    /\ UNCHANGED <<fileVars, retryVars, rateVars, timeVars, callVars,
                   runVars>>

\* lines 1179-1182: one aweme of the page, in _download_mix_by_id: no
\* limit, no time filter, no database lookup or insert.
mix_item ==
    /\ wpc = "items" /\ scope = "mix"
    /\ itemIdx <= Len(page.aweme_list)
    /\ \E success \in BOOLEAN, n \in 0..MaxMediaRequests :
        /\ permit' = PermitAfter(n)
        /\ bare_requests' = BareAfter(n)
        /\ itemIdx' = itemIdx + 1
        /\ downloaded' = IF success THEN downloaded + 1 ELSE downloaded
        /\ LogResult(page.aweme_list[itemIdx], success)
    /\ UNCHANGED <<scope, max_count, increase, start_time, end_time, db, cursor,
                   all_posts, page, fetches, stats, wpc>>
    /\ UNCHANGED <<fileVars, retryVars, rateVars, timeVars, callVars,
                   runVars>>

\* lines 1270-1279: one aweme of the page, in download_music: no time
\* filter.
music_item ==
    /\ wpc = "items" /\ scope = "music"
    /\ itemIdx <= Len(page.aweme_list)
    /\ LET aweme == page.aweme_list[itemIdx]
       IN  IF limit_reached
           THEN /\ wpc' = "done"
                /\ last_item' = "return"
                /\ UNCHANGED <<itemIdx, downloaded, db, permit, bare_requests>>
                /\ UNCHANGED <<db0, succeeded, run_no, prior>>
           ELSE IF should_skip_increment("music", aweme)
           THEN /\ itemIdx' = itemIdx + 1
                /\ last_item' = "continue"
                /\ UNCHANGED <<wpc, downloaded, db, permit, bare_requests>>
                /\ UNCHANGED <<db0, succeeded, run_no, prior>>
           ELSE \E success \in BOOLEAN, n \in 0..MaxMediaRequests :
                /\ permit' = PermitAfter(n)
                /\ bare_requests' = BareAfter(n)
                /\ itemIdx' = itemIdx + 1
                /\ downloaded' = IF success THEN downloaded + 1 ELSE downloaded
                /\ db' = recorded_after("music", aweme, success)
                /\ LogResult(aweme, success)
                /\ UNCHANGED wpc
    /\ UNCHANGED <<scope, max_count, increase, start_time, end_time, cursor,
                   all_posts, page, fetches, stats>>
    /\ UNCHANGED <<fileVars, retryVars, rateVars, timeVars, callVars,
                   runVars>>

\* lines 880-884, 989-992, 1184-1186, 1281-1283: after the last aweme of
\* the page the walk ends unless has_more is set; else the cursor moves to
\* the one the page carries.
walker_page_end ==
    /\ wpc = "items"
    /\ itemIdx > Len(page.aweme_list)
    /\ IF more_pages(page)
       THEN cursor' = page.cursor /\ wpc' = "acquire"
       ELSE wpc' = "done" /\ UNCHANGED cursor
    /\ UNCHANGED <<scope, max_count, increase, start_time, end_time, db,
                   downloaded, all_posts, page, itemIdx, fetches, stats, permit,
                   bare_requests>>
    /\ UNCHANGED walkLog
    /\ UNCHANGED <<fileVars, retryVars, rateVars, timeVars, callVars,
                   runVars>>

\* The walker as it is entered: the configuration it reads, what earlier
\* runs left in the database, and its own counters (lines 799-801,
\* 930-936, 1164-1165, 1251-1257).  _download_mix_by_id reads no limit,
\* and no code of the program inserts a record of the mix scope.
Init ==
    /\ FileIdle
    /\ RetryIdle
    /\ RateIdle
    /\ TimeIdle
    /\ CallsIdle
    /\ RunIdle
    /\ scope \in Scopes
    /\ max_count \in (IF scope = "mix" THEN {0} ELSE 0..MaxLimit)
    /\ increase \in BOOLEAN
    /\ \E w \in TimeWindows : start_time = w[1] /\ end_time = w[2]
    /\ db \in (IF scope = "mix" THEN {{}} ELSE {{}, {1}})
    /\ db0 = db
    /\ succeeded = {}
    /\ last_item = "none"
    /\ run_no = 1
    /\ prior = {}
    /\ cursor = 0
    /\ downloaded = 0
    /\ all_posts = NonePage
    /\ page = NonePage
    /\ itemIdx = 1
    /\ fetches = <<>>
    /\ stats = NewStats
    /\ permit = FALSE
    /\ bare_requests = 0
    /\ wpc = IF scope = "post" THEN "prefetch" ELSE "acquire"

Next ==
    \/ user_posts_prefetch
    \/ walker_acquire
    \/ user_posts_reuse
    \/ walker_fetch
    \/ user_posts_item
    \/ user_likes_item
    \/ mix_item
    \/ music_item
    \/ walker_page_end

Spec == Init /\ [][Next]_vars

\* The program is run again later, with the same configuration, on the
\* same link and with the database the first run left: a new
\* UnifiedDownloader (lines 141-165) enters the same walker.
walker_run_again ==
    /\ wpc = "done"
    /\ run_no = 1
    /\ run_no' = 2
    /\ prior' = succeeded
    /\ db0' = db
    /\ succeeded' = {}
    /\ last_item' = "none"
    /\ cursor' = 0
    /\ downloaded' = 0
    /\ all_posts' = NonePage
    /\ page' = NonePage
    /\ itemIdx' = 1
    /\ fetches' = <<>>
    /\ stats' = NewStats
    /\ permit' = FALSE
    /\ bare_requests' = 0
    /\ wpc' = IF scope = "post" THEN "prefetch" ELSE "acquire"
    /\ UNCHANGED <<scope, max_count, increase, start_time, end_time, db>>
    /\ UNCHANGED <<fileVars, retryVars, rateVars, timeVars, callVars,
                   runVars>>

NextTwoRuns ==
    \/ Next
    \/ walker_run_again

SpecTwoRuns == Init /\ [][NextTwoRuns]_vars

\* ---------------------------------------------------------------------
\* Properties of the walkers
\* ---------------------------------------------------------------------

\* C9: every network request is preceded by a completed acquire() of its
\* own: no two requests without an acquire() between them, and none before
\* the first acquire().
C9_EveryRequestAfterItsAcquire == bare_requests = 0

FirstPageIsLast ==
    /\ Len(fetches) >= 1
    /\ fetches[1].ok
    /\ ~fetches[1].has_more

C11_NoFetchOnceLimitReached ==
    [][(max_count > 0 /\ downloaded >= max_count) => fetches' = fetches]_vars

\* C13: in every scope whose increase flag is set, an aweme that an earlier
\* run downloaded successfully is reported as done by the lookup of the
\* later run and is not downloaded by the later run.
C13_NoRedownloadInLaterRun ==
    (run_no = 2 /\ increase) =>
        \A id \in prior : should_skip_increment(scope, id) /\ id \notin succeeded

\* The walker is at an aweme for which the database, asked with the key of
\* the scope, reports a record.
StoreReportsDone ==
    /\ wpc = "items"
    /\ itemIdx <= Len(page.aweme_list)
    /\ increase
    /\ page.aweme_list[itemIdx] \in db

\* C14: an aweme the database reports as done is passed over:
\* _download_media_files is not called for it, no request is made, and
\* the walker's downloaded counter, the statistics and the database stay
\* as they are.
C14_DoneItemIsSkipped ==
    [][StoreReportsDone =>
         /\ last_item' \in {"continue", "return"}
         /\ UNCHANGED <<downloaded, stats, db, succeeded, permit, bare_requests>>]_vars

C14_Witness ==
    /\ scope = "like"
    /\ increase
    /\ start_time = 0 /\ end_time = 0
    /\ max_count = 0
    /\ db0 = {1}
    /\ wpc = "items"
    /\ page.aweme_list = <<1, 2>>
    /\ itemIdx = 2
    /\ last_item = "continue"
    /\ downloaded = 0

\* C15: the database gets a record only in the step in which
\* _download_media_files returned success for that aweme, and the record
\* is that of this aweme; a failed download leaves the database as it is.
C15_RecordedOnlyAfterSuccess ==
    [][/\ db' # db =>
            /\ wpc = "items"
            /\ last_item' = "ok"
            /\ db' = db \cup {page.aweme_list[itemIdx]}
            /\ page.aweme_list[itemIdx] \in succeeded'
       /\ (wpc = "items" /\ itemIdx' # itemIdx /\ last_item' = "failed") => db' = db]_vars

C15_Witness ==
    /\ scope = "post"
    /\ increase
    /\ page.aweme_list = <<1, 2>>
    /\ stats.failed = 1
    /\ stats.success = 1
    /\ last_item = "ok"
    /\ db0 = {}
    /\ db = {2}

\* C16: with the increase flag of the scope not set, a walk leaves the
\* database as it found it.
C16_StoreUntouchedWhenDisabled == ~increase => db = db0

\* The day a time falls on (days are two halves long).
DayOf(t) == t \div 2

OutsideTimeWindow(id) ==
    \/ start_time # 0 /\ DayOf(CreateTime(id)) < start_time
    \/ end_time # 0 /\ DayOf(CreateTime(id)) > end_time

\* C18: no aweme created before the configured start date or after the
\* configured end date is downloaded, in any scope.
C18_OnlyItemsInTimeWindow == \A id \in succeeded : ~OutsideTimeWindow(id)

\* ======================================================================
\* UnifiedDownloader._check_time_filter (lines 1339-1378), called on its
\* own with a configured window and an aweme
\* ======================================================================

\* The configured days: 0 is "not set", the days are 1..MaxDay.
ConfigDays == 0..MaxDay

\* Awemes created from the second half of day 1 to day MaxDay + 2.
TimedAwemes == 1..(2 * MaxDay + 2)

check_time_filter_call ==
    /\ tf_result = "none"
    /\ tf_result' = IF check_time_filter(tf_aweme) THEN "True" ELSE "False"
    /\ UNCHANGED <<tf_aweme, fileVars, retryVars, rateVars, walkVars, callVars, runVars>>

TimeInit ==
    /\ FileIdle
    /\ CallsIdle
    /\ RetryIdle
    /\ RateIdle
    /\ RunIdle
    /\ WalkerAtRest
    /\ start_time \in ConfigDays
    /\ end_time \in ConfigDays
    /\ tf_aweme \in TimedAwemes
    /\ tf_result = "none"

TimeNext == check_time_filter_call

SpecTime == TimeInit /\ [][TimeNext]_vars

\* C17: an aweme created before the start date is excluded; one created
\* on or after the start date and on or before the end date (at any time
\* of the end date) is included.
C17_TimeFilterByDate ==
    tf_result # "none" =>
        LET day == DayOf(CreateTime(tf_aweme))
        IN  /\ (start_time # 0 /\ day < start_time) => tf_result = "False"
            /\ ( /\ start_time # 0 \/ end_time # 0
                 /\ start_time # 0 => day >= start_time
                 /\ end_time # 0 => day <= end_time ) => tf_result = "True"

\* C40: with a count limit N > 0 a walker run downloads at most N awemes
\* successfully, and only a successful download counts toward N.
C40_AtMostLimitDownloads ==
    /\ [](max_count > 0 => downloaded <= max_count)
    /\ [][downloaded' # downloaded =>
            (last_item' = "ok" /\ downloaded' = downloaded + 1)]_vars

C40_Witness ==
    /\ scope = "like"
    /\ max_count = 1
    /\ stats = NewStats
    /\ page.aweme_list = <<1, 2>>
    /\ itemIdx = 2
    /\ downloaded = 1
    /\ last_item = "return"
    /\ wpc = "done"

\* C39: within one run of the like, mix or music walker no cursor is
\* requested twice.
C39_NoCursorRequestedTwice ==
    scope # "post" =>
        \A j, k \in 1..Len(fetches) : j # k => fetches[j].cursor # fetches[k].cursor

\* C32: the awemes of a page are worked on one after the other in the
\* order of the page, each download is that of the aweme the loop stands
\* at, and a page is requested only when every aweme of the page before
\* it has been worked on.
C32_ItemsInOrderPageByPage ==
    /\ [][itemIdx' # itemIdx =>
            \/ itemIdx' = itemIdx + 1 /\ itemIdx <= Len(page.aweme_list) /\ page' = page
            \/ itemIdx' = 1 /\ wpc = "fetch"]_vars
    /\ [][succeeded' # succeeded =>
            /\ wpc = "items"
            /\ itemIdx' = itemIdx + 1
            /\ succeeded' = succeeded \cup {page.aweme_list[itemIdx]}]_vars
    /\ [][fetches' # fetches =>
            (Len(fetches') = Len(fetches) + 1 /\ itemIdx > Len(page.aweme_list))]_vars

C32_Witness ==
    /\ scope = "mix"
    /\ Len(fetches) = 2
    /\ fetches[1].has_more
    /\ page.aweme_list = <<2, 1>>
    /\ wpc = "items"
    /\ itemIdx = 2
    /\ succeeded = {2}
    /\ last_item = "ok"

\* C23: a page request of a walker that fails (in mix and music a page is
\* None only when the request failed) is made max_retries times for the
\* same cursor before the walker ends.
C23_FailedPageFetchRetried ==
    [][(scope \in {"mix", "music"} /\ wpc = "fetch" /\ wpc' = "done" /\ ~page'.ok) =>
            /\ Len(fetches') >= max_retries
            /\ \A k \in (Len(fetches') - max_retries + 1)..Len(fetches') :
                    fetches'[k].cursor = cursor /\ ~fetches'[k].ok]_vars

\* ======================================================================
\* The page fetchers that build their own request, each called on its
\* own: _fetch_user_likes (996-1050), _fetch_user_mix_list (1092-1142),
\* _fetch_mix_awemes (1190-1237), _fetch_music_awemes (1291-1337).
\* ======================================================================

Fetchers ==
    {"_fetch_user_likes", "_fetch_user_mix_list", "_fetch_mix_awemes",
     "_fetch_music_awemes"}

\* lines 1117-1142: None unless the document has status_code 0 (the list
\* of collections is read as the aweme_list of the answer).
fetch_user_mix_list(a, c) ==
    IF a.answered /\ a.status_code = 0 THEN AsPage(a) ELSE NonePage

\* lines 1020-1032, 1117-1122, 1214-1219, 1316-1321: the request that goes
\* out: with X-Bogus, or without it when getXbogus raised
\* (first, a variant that issues no request when getXbogus raised)
page_requests_signed_only(sign) ==
    IF sign = "ok" THEN <<[x_bogus |-> TRUE]>> ELSE <<>>

page_requests(sign) ==
    IF sign = "ok" THEN <<[x_bogus |-> TRUE]>> ELSE <<[x_bogus |-> FALSE]>>

\* What the fetcher makes of the answer to its request.
read_response(f, a, c) ==
    CASE f = "_fetch_user_likes" -> fetch_user_likes(a, c)
      [] f = "_fetch_user_mix_list" -> fetch_user_mix_list(a, c)
      [] f = "_fetch_mix_awemes" -> fetch_mix_awemes(a, c)
      [] f = "_fetch_music_awemes" -> fetch_music_awemes(a, c)

page_fetch_call ==
    /\ pf_pc = "call"
    /\ pf_requests' = page_requests(pf_sign)
    /\ pf_result' = IF pf_requests' = <<>>
                    THEN NonePage
                    ELSE read_response(pf_fetcher, pf_answer, pf_cursor)
    /\ pf_pc' = "done"
    /\ UNCHANGED <<pf_fetcher, pf_cursor, pf_sign, pf_answer>>
    /\ UNCHANGED <<fileVars, retryVars, rateVars, walkVars, timeVars, runVars, urlVars,
                   mediaVars, itemVars>>

FetchInit ==
    /\ FileIdle
    /\ RetryIdle
    /\ RateIdle
    /\ WalkIdle
    /\ TimeIdle
    /\ RunIdle
    /\ UrlIdle
    /\ MediaIdle
    /\ ItemIdle
    /\ pf_fetcher \in Fetchers
    /\ pf_cursor \in Cursors
    /\ pf_sign \in {"ok", "raises"}
    /\ pf_answer \in Answers
    /\ pf_requests = <<>>
    /\ pf_result = NonePage
    /\ pf_pc = "call"

FetchNext == page_fetch_call

SpecFetch == FetchInit /\ [][FetchNext]_vars

\* C25: a well-formed answer with a status_code other than 0 ends the
\* enumeration, whichever fetcher read it: the walker that called gets
\* nothing to work on.
C25_NonZeroStatusEndsWalk ==
    (pf_pc = "done" /\ pf_answer.answered /\ pf_answer.status_code # 0) =>
        AfterFetch(pf_result) = "done"

\* C26: when getXbogus raises, the request is issued all the same, without
\* X-Bogus, and the fetcher returns what it reads from the answer to it.
C26_UnsignedRequestWhenSigningFails ==
    (pf_pc = "done" /\ pf_sign = "raises") =>
        /\ pf_requests = <<[x_bogus |-> FALSE]>>
        /\ pf_result = read_response(pf_fetcher, pf_answer, pf_cursor)

C26_Witness ==
    /\ pf_pc = "done"
    /\ pf_sign = "raises"
    /\ pf_fetcher = "_fetch_mix_awemes"
    /\ pf_requests = <<[x_bogus |-> FALSE]>>
    /\ pf_answer.answered
    /\ pf_result.aweme_list # <<>>
    /\ AfterFetch(pf_result) = "items"

\* ======================================================================
\* detect_content_type (249-266), resolve_short_url (268-279) and
\* extract_id_from_url (281-337), each called on its own.
\*
\* A URL is the sequence of its parts the patterns look for, from left to
\* right: a part is a marker (a path segment, a query key, a host name)
\* with what follows it: nothing the patterns accept ("none"), a short run
\* of digits ("digits3"), a run of 16 digits ("digits16"), or word
\* characters that are not all digits ("word").  The marker "/" is any
\* other place of the URL.
\* ======================================================================

UrlParts ==
    [seg : {"live.douyin.com", "v.douyin.com"}, id : {"none"}]
    \cup [seg : {"/user/", "sec_uid="}, id : {"none", "word", "digits16"}]
    \cup [seg : {"/video/", "/note/", "modal_id=", "aweme_id=", "item_id=",
                 "/collection/", "/music/", "/mix/detail/", "/"},
          id : {"none", "digits3", "digits16"}]

UrlStrings == SeqsUpTo(UrlParts, MaxParts)

\* "marker in url"
Contains(u, seg) == \E i \in 1..Len(u) : u[i].seg = seg

\* lines 251-266 (first, a variant that looks for /video/ before /user/;
\* '/share/user/' contains '/user/')
detect_content_type_video_first(u) ==
    IF Contains(u, "/video/") THEN "video"
    ELSE IF Contains(u, "/user/") THEN "user"
    ELSE IF Contains(u, "/note/") THEN "image"
    ELSE IF Contains(u, "/collection/") \/ Contains(u, "/mix/detail/") THEN "mix"
    ELSE IF Contains(u, "/music/") THEN "music"
    ELSE IF Contains(u, "live.douyin.com") THEN "live"
    ELSE "video"

detect_content_type(u) ==
    IF Contains(u, "/user/") THEN "user"
    ELSE IF Contains(u, "/video/") THEN "video"
    ELSE IF Contains(u, "/note/") THEN "image"
    ELSE IF Contains(u, "/collection/") \/ Contains(u, "/mix/detail/") THEN "mix"
    ELSE IF Contains(u, "/music/") THEN "music"
    ELSE IF Contains(u, "live.douyin.com") THEN "live"
    ELSE IF Contains(u, "v.douyin.com") THEN "video"
    ELSE "video"

\* A regular expression of lines 290-329: the marker it starts with ("*"
\* for none) and what its group accepts.
WordIds == {"word", "digits3", "digits16"}

DigitIds == {"digits3", "digits16"}

user_patterns ==
    <<[seg |-> "/user/", ids |-> WordIds], [seg |-> "sec_uid=", ids |-> WordIds]>>

video_patterns ==
    <<[seg |-> "/video/", ids |-> DigitIds], [seg |-> "/note/", ids |-> DigitIds],
      [seg |-> "modal_id=", ids |-> DigitIds], [seg |-> "aweme_id=", ids |-> DigitIds],
      [seg |-> "item_id=", ids |-> DigitIds]>>

other_patterns ==
    <<[seg |-> "/collection/", ids |-> DigitIds], [seg |-> "/music/", ids |-> DigitIds]>>

\* line 329: (\d{15,20}), anywhere in the URL
number_patterns == <<[seg |-> "*", ids |-> {"digits16"}]>>

Leftmost(S) == CHOOSE x \in S : \A y \in S : x <= y

\* re.search(pattern, url): the leftmost match, 0 for None
re_search(p, u) ==
    LET hits == {i \in 1..Len(u) : (p.seg = "*" \/ u[i].seg = p.seg) /\ u[i].id \in p.ids}
    IN  IF hits = {} THEN 0 ELSE Leftmost(hits)

\* The lists of patterns in the order lines 289-331 go through them
\* (first, a variant that tries the collection and music patterns ahead of
\* the video patterns)
pattern_lists_other_first(u, hint) ==
    (IF hint = "user" \/ Contains(u, "/user/") THEN <<user_patterns>> ELSE <<>>)
    \o <<other_patterns, video_patterns, number_patterns>>

pattern_lists(u, hint) ==
    (IF hint = "user" \/ Contains(u, "/user/") THEN <<user_patterns>> ELSE <<>>)
    \o <<video_patterns, other_patterns, number_patterns>>

\* "for pattern in patterns: match = re.search(pattern, url); if match:
\* return match.group(1)"; the ID returned is named by the pattern that
\* found it and the part it was found in; NoMatch stands for None.
NoMatch == [by |-> "None", at |-> 0]

RECURSIVE first_match(_, _)
first_match(patterns, u) ==
    IF patterns = <<>> THEN NoMatch
    ELSE IF re_search(Head(patterns), u) # 0
    THEN [by |-> Head(patterns).seg, at |-> re_search(Head(patterns), u)]
    ELSE first_match(Tail(patterns), u)

RECURSIVE first_of_lists(_, _)
first_of_lists(lists, u) ==
    IF lists = <<>> THEN NoMatch
    ELSE IF first_match(Head(lists), u) # NoMatch THEN first_match(Head(lists), u)
    ELSE first_of_lists(Tail(lists), u)

\* lines 281-337
extract_id_from_url(u, hint) == first_of_lists(pattern_lists(u, hint), u)

\* Where a short link may lead.
FinalUrls ==
    {<<[seg |-> "/video/", id |-> "digits16"]>>, <<[seg |-> "/user/", id |-> "word"]>>}

\* lines 277-279: requests.get raised
\* (first, a variant without the try)
after_redirect_error_raises(u) == [kind |-> "raise", value |-> "RequestException"]

after_redirect_error(u) == [kind |-> "return", value |-> u]

detect_content_type_call ==
    /\ u_pc = "call"
    /\ u_result' = [op |-> "detect", kind |-> "return",
                    value |-> detect_content_type(u_url), requests |-> 0,
                    redirect |-> "none"]
    /\ u_pc' = "done"
    /\ UNCHANGED <<u_url, u_hint>>
    /\ UNCHANGED <<fileVars, retryVars, rateVars, walkVars, timeVars, runVars, fetchVars,
                   mediaVars, itemVars>>

extract_id_from_url_call ==
    /\ u_pc = "call"
    /\ u_result' = [op |-> "extract", kind |-> "return",
                    value |-> extract_id_from_url(u_url, u_hint), requests |-> 0,
                    redirect |-> "none"]
    /\ u_pc' = "done"
    /\ UNCHANGED <<u_url, u_hint>>
    /\ UNCHANGED <<fileVars, retryVars, rateVars, walkVars, timeVars, runVars, fetchVars,
                   mediaVars, itemVars>>

\* lines 268-279
resolve_short_url_call ==
    /\ u_pc = "call"
    /\ IF Contains(u_url, "v.douyin.com")
       THEN \/ \E final \in FinalUrls :
                 u_result' = [op |-> "resolve", kind |-> "return", value |-> final,
                              requests |-> 1, redirect |-> "ok"]
            \/ u_result' = [op |-> "resolve",
                            kind |-> after_redirect_error(u_url).kind,
                            value |-> after_redirect_error(u_url).value,
                            requests |-> 1, redirect |-> "failed"]
       ELSE u_result' = [op |-> "resolve", kind |-> "return", value |-> u_url,
                         requests |-> 0, redirect |-> "none"]
    /\ u_pc' = "done"
    /\ UNCHANGED <<u_url, u_hint>>
    /\ UNCHANGED <<fileVars, retryVars, rateVars, walkVars, timeVars, runVars, fetchVars,
                   mediaVars, itemVars>>

UrlInit ==
    /\ FileIdle
    /\ RetryIdle
    /\ RateIdle
    /\ WalkIdle
    /\ TimeIdle
    /\ RunIdle
    /\ FetchIdle
    /\ MediaIdle
    /\ ItemIdle
    /\ u_url \in UrlStrings
    /\ u_hint \in {"user", "video", "None"}
    /\ u_result = NoCall
    /\ u_pc = "call"

UrlNext ==
    \/ detect_content_type_call
    \/ extract_id_from_url_call
    \/ resolve_short_url_call

SpecUrl == UrlInit /\ [][UrlNext]_vars

\* C27: a URL with a user path segment classifies as User, whatever else
\* it holds (a /video/ segment, a run of 16 digits).
C27_UserPatternFirst ==
    (u_result.op = "detect" /\ Contains(u_url, "/user/")) => u_result.value = "user"

C27_Witness ==
    /\ u_result.op = "detect"
    /\ u_url = <<[seg |-> "/video/", id |-> "digits16"], [seg |-> "/user/", id |-> "word"]>>
    /\ u_result.value = "user"

\* The ID a fixed order of the patterns gives: the user patterns first if
\* userFirst, then video, note, modal_id, aweme_id, item_id, then
\* collection and music, then the bare run of 15 to 20 digits; the first
\* pattern of that order that matches anywhere in the URL decides, and
\* nothing is returned when none matches.
InClaimedOrder(userFirst) ==
    LET ps == (IF userFirst THEN user_patterns ELSE <<>>)
              \o video_patterns \o other_patterns \o number_patterns
        ks == {k \in 1..Len(ps) : re_search(ps[k], u_url) # 0}
    IN  IF ks = {}
        THEN NoMatch
        ELSE [by |-> ps[Leftmost(ks)].seg, at |-> re_search(ps[Leftmost(ks)], u_url)]

\* C28 as stated: the user patterns come first when the hint is user, and
\* with any other hint the video patterns come first.
C28_OrderByHintOnly ==
    u_result.op = "extract" => u_result.value = InClaimedOrder(u_hint = "user")

\* C28, amended: the user patterns come first when the hint is user or
\* the URL contains /user/; then the video, note, modal_id, aweme_id and
\* item_id patterns, then collection and music, then a bare run of 15 to
\* 20 digits; no ID when nothing matches.
C28_OrderByHintOrUserSegment ==
    u_result.op = "extract" =>
        u_result.value = InClaimedOrder(u_hint = "user" \/ Contains(u_url, "/user/"))

C28_Witness ==
    /\ u_result.op = "extract"
    /\ u_hint = "video"
    /\ u_url = <<[seg |-> "/user/", id |-> "word"], [seg |-> "modal_id=", id |-> "digits16"]>>
    /\ u_result.value = [by |-> "/user/", at |-> 1]

\* C29: resolve_short_url never raises; when the redirect request of a
\* short link fails it returns its argument, and for a URL that is not a
\* short link it returns its argument and issues no request.
C29_ResolveNeverRaises ==
    u_result.op = "resolve" =>
        /\ u_result.kind = "return"
        /\ u_result.redirect = "failed" => u_result.value = u_url
        /\ ~Contains(u_url, "v.douyin.com") =>
                (u_result.requests = 0 /\ u_result.value = u_url)

C29_Witness ==
    /\ u_result.op = "resolve"
    /\ Contains(u_url, "v.douyin.com")
    /\ u_result.redirect = "failed"
    /\ u_result.requests = 1
    /\ u_result.kind = "return"
    /\ u_result.value = u_url

\* ======================================================================
\* The candidate URLs of a video item: _get_no_watermark_url (654-679),
\* the video branch of _download_media_files (610-625) and the list
\* _download_file builds from what it is given (722-725).
\* ======================================================================

MediaUrls == [name : {"a", "b"}, wm : BOOLEAN]

UrlLists == SeqsUpTo(MediaUrls, MaxAddrUrls)

\* lines 666-667: url.replace('playwm', 'play').replace('720p', '1080p')
rewritten(u) == [u EXCEPT !.wm = FALSE]

\* the values of an address key: NoAddr or a dictionary with a url_list
Addrs == {NoAddr} \cup [none : {FALSE}, url_list : UrlLists]

\* lines 654-679
get_no_watermark_url(video) ==
    LET play_addr == IF ~video.play_addr_h264.none
                     THEN video.play_addr_h264
                     ELSE video.play_addr
    IN  IF ~play_addr.none /\ play_addr.url_list # <<>>
        THEN rewritten(play_addr.url_list[1])
        ELSE IF ~video.download_addr.none /\ video.download_addr.url_list # <<>>
        THEN video.download_addr.url_list[1]
        ELSE NoUrl

\* lines 615-619: the url_list of the three keys, one after the other
video_fallbacks(video) ==
    video.play_addr.url_list \o video.play_addr_h264.url_list
        \o video.download_addr.url_list

\* lines 612-621 and 722-725
media_candidates_call ==
    /\ m_pc = "call"
    /\ m_video_url' = get_no_watermark_url(m_video)
    /\ m_urls_to_try' = IF m_video_url' = NoUrl
                        THEN <<>>
                        ELSE UrlsToTry(m_video_url', video_fallbacks(m_video))
    /\ m_pc' = "done"
    /\ UNCHANGED m_video
    /\ UNCHANGED <<fileVars, retryVars, rateVars, walkVars, timeVars, runVars, fetchVars,
                   urlVars, itemVars>>

MediaInit ==
    /\ FileIdle
    /\ RetryIdle
    /\ RateIdle
    /\ WalkIdle
    /\ TimeIdle
    /\ RunIdle
    /\ FetchIdle
    /\ UrlIdle
    /\ ItemIdle
    /\ m_video \in [play_addr : Addrs, play_addr_h264 : Addrs, download_addr : Addrs]
    /\ m_video_url = NoUrl
    /\ m_urls_to_try = <<>>
    /\ m_pc = "call"

MediaNext == media_candidates_call

SpecMedia == MediaInit /\ [][MediaNext]_vars

Discovered == video_fallbacks(m_video)

Elems(q) == {q[i] : i \in 1..Len(q)}

FirstAt(q, x) == CHOOSE i \in 1..Len(q) : q[i] = x /\ \A j \in 1..(i - 1) : q[j] # x

\* C30: the candidate sequence of a video item begins with the chosen
\* URL, holds after it every other discovered URL (the play URL as it was
\* before the rewriting and the download_addr URLs among them) in the
\* order of discovery, and holds no URL twice.
C30_CandidatesChosenFirstNoDuplicates ==
    (m_pc = "done" /\ m_video_url # NoUrl) =>
        /\ m_urls_to_try[1] = m_video_url
        /\ Elems(m_urls_to_try) = Elems(Discovered) \cup {m_video_url}
        /\ \A i, j \in 2..Len(m_urls_to_try) :
                i < j => FirstAt(Discovered, m_urls_to_try[i])
                            < FirstAt(Discovered, m_urls_to_try[j])
        /\ \A i, j \in 1..Len(m_urls_to_try) :
                i # j => m_urls_to_try[i] # m_urls_to_try[j]

\* C34: _get_no_watermark_url returns a URL derived from the H264 play
\* address whenever that has at least one URL, otherwise one derived from
\* the generic play address whenever that has at least one URL (both
\* rewritten), otherwise the first download_addr URL unmodified, and none
\* only when all three have no URL.
C34_PreferenceOrderOfPlayAddresses ==
    m_pc = "done" =>
        LET h264 == m_video.play_addr_h264.url_list
            play == m_video.play_addr.url_list
            down == m_video.download_addr.url_list
        IN  m_video_url = IF h264 # <<>> THEN rewritten(h264[1])
                          ELSE IF play # <<>> THEN rewritten(play[1])
                          ELSE IF down # <<>> THEN down[1]
                          ELSE NoUrl

\* ======================================================================
\* _get_best_quality_url (682-694), which chooses the URL of an image
\* (line 603).
\* ======================================================================

MaxImgUrls == 2

\* line 688: the keywords, in the order the outer loop takes them
Keywords == <<"1080", "origin", "high">>

ImgUrls == [name : {"a", "b"}, kw : SUBSET {Keywords[k] : k \in 1..Len(Keywords)}]

ImgLists == SeqsUpTo(ImgUrls, MaxImgUrls)

get_best_quality_url_url_first(url_list) ==
    IF url_list = <<>> THEN NoImg
    ELSE LET hits == {i \in 1..Len(url_list) : url_list[i].kw # {}}
         IN  IF hits # {} THEN url_list[Leftmost(hits)] ELSE url_list[1]

\* lines 682-694: for each keyword in turn, the first URL containing it
get_best_quality_url(url_list) ==
    IF url_list = <<>> THEN NoImg
    ELSE LET hit(k) == {i \in 1..Len(url_list) : Keywords[k] \in url_list[i].kw}
             found == {k \in 1..Len(Keywords) : hit(k) # {}}
         IN  IF found # {}
             THEN url_list[Leftmost(hit(Leftmost(found)))]
             ELSE url_list[1]

best_quality_call ==
    /\ q_pc = "call"
    /\ q_result' = get_best_quality_url(q_url_list)
    /\ q_pc' = "done"
    /\ UNCHANGED <<q_url_list, mf_info, mf_now, mf_disk, mf_calls>>
    /\ UNCHANGED <<fileVars, retryVars, rateVars, walkVars, timeVars, runVars, fetchVars,
                   urlVars, mediaVars>>

QualityInit ==
    /\ FileIdle
    /\ RetryIdle
    /\ RateIdle
    /\ WalkIdle
    /\ TimeIdle
    /\ RunIdle
    /\ FetchIdle
    /\ UrlIdle
    /\ MediaIdle
    /\ MediaFilesIdle
    /\ q_url_list \in ImgLists
    /\ q_result = NoImg
    /\ q_pc = "call"

QualityNext == best_quality_call

SpecQuality == QualityInit /\ [][QualityNext]_vars

\* the positions of q_url_list that hold a URL with keyword kw
With(kw) == {i \in 1..Len(q_url_list) : kw \in q_url_list[i].kw}

\* C35 as stated: for a non-empty list the result is the first URL of
\* the list that contains any of the quality keywords, the first URL
\* when none does; it is a member of the list; none only for the empty
\* list.
C35_FirstUrlWithAnyKeyword ==
    q_pc = "done" =>
        LET any == With("1080") \cup With("origin") \cup With("high")
        IN  /\ q_url_list = <<>> <=> q_result = NoImg
            /\ q_url_list # <<>> =>
                    /\ q_result \in Elems(q_url_list)
                    /\ q_result = IF any # {} THEN q_url_list[Leftmost(any)]
                                  ELSE q_url_list[1]

\* C35, amended: for a non-empty list the result is the first URL that
\* contains '1080' when some URL does, otherwise the first that contains
\* 'origin' when some URL does, otherwise the first that contains 'high'
\* when some URL does, otherwise the first URL; it is a member of the
\* list; none only for the empty list.
C35_FirstUrlOfBestKeyword ==
    q_pc = "done" =>
        /\ q_url_list = <<>> <=> q_result = NoImg
        /\ q_url_list # <<>> =>
                /\ q_result \in Elems(q_url_list)
                /\ q_result =
                      IF With("1080") # {} THEN q_url_list[Leftmost(With("1080"))]
                      ELSE IF With("origin") # {} THEN q_url_list[Leftmost(With("origin"))]
                      ELSE IF With("high") # {} THEN q_url_list[Leftmost(With("high"))]
                      ELSE q_url_list[1]

C35_Witness ==
    /\ q_pc = "done"
    /\ q_url_list = <<[name |-> "a", kw |-> {"high"}], [name |-> "b", kw |-> {"origin"}]>>
    /\ q_result = [name |-> "b", kw |-> {"origin"}]

\* ======================================================================
\* _download_media_files (567-652): where the files of an item go, which
\* of them are asked for, and what the call returns.  The configuration
\* has music, cover and json at their defaults (lines 628, 635, 643).
\* ======================================================================

MaxNow == 2

MaxCalls == 2

\* line 582: the formats strptime is tried with
Formats == {"%Y-%m-%d %H.%M.%S", "%Y-%m-%d_%H-%M-%S", "%Y-%m-%d %H:%M:%S"}

\* video_info.get('create_time'): missing, a number of seconds, a string
\* in one of the three formats or in another, the empty string.
CreateTimes ==
    {NoCreateTime}
        \cup [kind : {"number"}, fmt : {""}, t : 1..MaxNow]
        \cup [kind : {"str"}, fmt : Formats \cup {"%d/%m/%Y"}, t : {1}]
        \cup {[kind |-> "str", fmt |-> "", t |-> 0]}

\* lines 578-589: dt_obj, in whole seconds
dt_obj(raw_create_time, time_time) ==
    IF raw_create_time.kind = "number" THEN raw_create_time.t
    ELSE IF raw_create_time.kind = "str" /\ raw_create_time.fmt \in Formats
    THEN raw_create_time.t
    ELSE time_time

\* lines 577-592: create_time as line 590 formats it, and the description
folder_name(info, time_time) ==
    [create_time |-> [fmt |-> "%Y-%m-%d_%H-%M-%S",
                      t |-> dt_obj(info.create_time, time_time)],
     desc |-> info.desc]

\* line 593
save_dir(info, time_time) ==
    [author |-> info.author, folder |-> folder_name(info, time_time)]

\* A url_list of an image with one URL, and one with none.
OneImgUrl == <<[name |-> "a", kw |-> {}]>>

OneAddr == [none |-> FALSE, url_list |-> <<[name |-> "a", wm |-> FALSE]>>]

EmptyAddr == [none |-> FALSE, url_list |-> <<>>]

\* The items handed in: a video item is one without images (line 571).
MediaItems ==
    [author : {"unknown", "nick"}, desc : {"", "d"}, create_time : CreateTimes,
     video : {[play_addr |-> OneAddr, play_addr_h264 |-> NoAddr, download_addr |-> NoAddr],
              [play_addr |-> OneAddr, play_addr_h264 |-> EmptyAddr, download_addr |-> NoAddr],
              [play_addr |-> NoAddr, play_addr_h264 |-> NoAddr, download_addr |-> NoAddr]},
     images : {<<>>}, optional : BOOLEAN]
    \cup
    [author : {"unknown", "nick"}, desc : {"", "d"}, create_time : CreateTimes,
     video : {[play_addr |-> NoAddr, play_addr_h264 |-> NoAddr, download_addr |-> NoAddr]},
     images : {<<OneImgUrl>>, <<OneImgUrl, <<>>>>, <<OneImgUrl, OneImgUrl>>},
     optional : BOOLEAN]

\* What a call of _download_file does when the file is not there yet:
\* it writes the file and returns True, or returns False (lines 715-754).
Outcomes == {"ok", "failed"}

\* the assets _download_file is called for: the primary ones (lines 606,
\* 622) and the optional ones (lines 632, 640)
primary_asked(info) ==
    IF info.images # <<>>
    THEN {[asset |-> "image", i |-> i] :
            i \in {j \in 1..Len(info.images) :
                        get_best_quality_url(info.images[j]) # NoImg}}
    ELSE IF get_no_watermark_url(info.video) # NoUrl
    THEN {[asset |-> "mp4", i |-> 0]}
    ELSE {}

optional_asked(info) ==
    IF ~info.optional THEN {}
    ELSE IF info.images # <<>> THEN {[asset |-> "cover", i |-> 0]}
    ELSE {[asset |-> "music", i |-> 0], [asset |-> "cover", i |-> 0]}

\* the primary media of an item: its .mp4, or every image_i.jpg
primary_media(info) ==
    IF info.images # <<>>
    THEN {[asset |-> "image", i |-> i] : i \in 1..Len(info.images)}
    ELSE {[asset |-> "mp4", i |-> 0]}

AssetNames ==
    {[asset |-> "image", i |-> 1], [asset |-> "image", i |-> 2],
     [asset |-> "mp4", i |-> 0], [asset |-> "music", i |-> 0],
     [asset |-> "cover", i |-> 0]}

\* lines 567-652, one call
download_media_files ==
    /\ Len(mf_calls) < MaxCalls
    /\ \E net \in [AssetNames -> Outcomes], json \in {"written", "raises"} :
        LET dir == save_dir(mf_info, mf_now)
            there(a) == \E f \in mf_disk : f.dir = dir /\ f.name = a
            \* _download_file: True for a file that is there (line 717)
            got(a) == there(a) \/ net[a] = "ok"
            asked == primary_asked(mf_info) \cup optional_asked(mf_info)
            success == \A a \in primary_asked(mf_info) : got(a)
            written == {[dir |-> dir, name |-> a] : a \in {b \in asked : got(b)}}
                        \cup IF json = "written"
                             THEN {[dir |-> dir, name |-> [asset |-> "json", i |-> 0]]}
                             ELSE {}
        IN  /\ \A a \in AssetNames : (a \notin asked \/ there(a)) => net[a] = "ok"
            /\ mf_disk' = mf_disk \cup written
            /\ mf_calls' = Append(mf_calls,
                    [save_dir |-> dir, primary |-> primary_media(mf_info),
                     result |-> IF json = "raises" THEN FALSE ELSE success])
    /\ UNCHANGED <<mf_info, mf_now, q_url_list, q_result, q_pc>>
    /\ UNCHANGED <<fileVars, retryVars, rateVars, walkVars, timeVars, runVars, fetchVars,
                   urlVars, mediaVars>>

\* The wall clock between two calls.
clock_advances ==
    /\ mf_now < MaxNow
    /\ mf_now' = mf_now + 1
    /\ UNCHANGED <<mf_info, mf_disk, mf_calls, q_url_list, q_result, q_pc>>
    /\ UNCHANGED <<fileVars, retryVars, rateVars, walkVars, timeVars, runVars, fetchVars,
                   urlVars, mediaVars>>

MediaFilesInit ==
    /\ FileIdle
    /\ RetryIdle
    /\ RateIdle
    /\ WalkIdle
    /\ TimeIdle
    /\ RunIdle
    /\ FetchIdle
    /\ UrlIdle
    /\ MediaIdle
    /\ QualityIdle
    /\ mf_info \in MediaItems
    /\ mf_now = 1
    /\ mf_disk = {}
    /\ mf_calls = <<>>

MediaFilesNext == download_media_files \/ clock_advances

SpecMediaFiles == MediaFilesInit /\ [][MediaFilesNext]_vars

\* C31: the same item processed twice, at whatever wall-clock times,
\* gets the same destination directory and file names, an item without
\* a create_time or with one that cannot be parsed included.
C31_SameItemSamePaths ==
    \A j, k \in 1..Len(mf_calls) : mf_calls[j].save_dir = mf_calls[k].save_dir

\* C37: a call of _download_media_files that returns True leaves the
\* primary media of the item at its destination: the .mp4 of a video
\* item, every image_i.jpg of an image item.
C37_SuccessOnlyWithPrimaryMedia ==
    \A k \in 1..Len(mf_calls) :
        mf_calls[k].result =>
            \A a \in mf_calls[k].primary :
                [dir |-> mf_calls[k].save_dir, name |-> a] \in mf_disk

\* ======================================================================
\* run() (lines 1380-1442) and what it calls: download_single_video
\* (406-470), download_user_page (756-795), _download_user_mixes
\* (1052-1090), download_mix (1144-1160), download_music (1239-1289) and
\* the walkers, which are taken here one turn of their while loop at a
\* time.  Every link is taken as line 1405 resolved it.
\* ======================================================================

\* A link as lines 249-266 classify it and lines 281-337, 1148-1152 find
\* its ID: a video or note link, any other link without a digit ID (which
\* line 266 also calls a video), a user link, a collection link, a music
\* link, a live link.
LinkKinds == {"video", "video_no_id", "user", "mix", "music", "live"}

\* config mode (line 768), a list of scopes
Modes == {<<"post", "like">>, <<"mix", "post">>}

runCfg == <<links, mode, number>>

walkerLocals == <<w_downloaded, w_pages>>

mixLocals == <<fetched, mix_left, mix_more, mix_pages>>

\* What run() and its callees leave alone: everything but the statistics.
notRun == <<fileVars, retryVars, rateVars, timeVars, callVars, walkRest, start_time,
            end_time>>

Top(st) == st[Len(st)]

Front(st) == SubSeq(st, 1, Len(st) - 1)

WalkerFrames ==
    {"_download_user_posts", "_download_user_likes", "_download_mix_by_id",
     "download_music"}

ScopeOf(frame) ==
    CASE frame = "_download_user_posts" -> "post"
      [] frame = "_download_user_likes" -> "like"
      [] frame = "_download_mix_by_id" -> "mix"
      [] frame = "download_music" -> "music"

\* lines 799, 932, 1255: the count limit the walker reads; lines 1164-1165:
\* _download_mix_by_id reads none.
LimitOf(sc) == IF sc = "mix" THEN 0 ELSE number

\* What _download_media_files (lines 869, 980, 1180, 1276) returns for
\* one aweme.  The awemes the time filter or the database lookup passes
\* over (lines 855-866, 968-978, 1274-1275) change neither a counter nor
\* the statistics and are left out of the page.
ItemResults == {"ok", "failed"}

\* What _download_media_files returns for the awemes of a user's posts:
\* _fetch_user_posts gives the whole list of posts as one page (lines
\* 898-917), of one aweme or of three.
PostResults == {<<"ok">>, <<"failed">>, <<"ok", "ok", "ok">>}

\* The feed has at most MaxPages pages: the last one reports no more.
HasMoreAfter(pages) == IF pages + 1 < MaxPages THEN BOOLEAN ELSE {FALSE}

\* What one page request of a walker gives: None (the fetcher caught an
\* error, or the status was wrong), a document without awemes, a JSON
\* document that is not an object (_fetch_mix_awemes and
\* _fetch_music_awemes return json.loads(text) as it is, lines 1233-1234,
\* 1333-1334), or awemes.  _fetch_user_posts always reports has_more
\* False (line 917).
Pages(sc, pages) ==
    {[kind |-> k, results |-> <<>>, has_more |-> FALSE] :
        k \in {"none", "empty"} \cup
              (IF sc \in {"mix", "music"} THEN {"not_dict"} ELSE {})}
    \cup [kind : {"items"},
          results : IF sc = "post"
                    THEN PostResults
                    ELSE SeqsUpTo(ItemResults, MaxPageItems) \ {<<>>},
          has_more : IF sc = "post" THEN {FALSE} ELSE HasMoreAfter(pages)]

\* lines 841-846, 955-960, 1172-1177, 1264-1268: what the walker does with
\* the page: None and an empty aweme_list break out of the loop; a
\* document that is not an object has no get().
\* (first, a variant in which None is not tested for)
after_page_none_raises(kind) ==
    CASE kind = "none" -> "raise"
      [] kind = "empty" -> "break"
      [] kind = "not_dict" -> "raise"
      [] kind = "items" -> "items"

after_page(kind) ==
    CASE kind \in {"none", "empty"} -> "break"
      [] kind = "not_dict" -> "raise"
      [] kind = "items" -> "items"

\* The for loop over the awemes of a page (lines 849-878, 963-987,
\* 1179-1182, 1270-1279): d is downloaded, L the limit; ret tells that
\* the limit test returned from the walker.
RECURSIVE walk_items(_, _, _)
walk_items(results, d, L) ==
    IF results = <<>>
    THEN [d |-> d, ok |-> 0, failed |-> 0, ret |-> FALSE]
    ELSE IF L > 0 /\ d >= L
    THEN [d |-> d, ok |-> 0, failed |-> 0, ret |-> TRUE]
    ELSE LET r == Head(results)
             rest == walk_items(Tail(results), IF r = "ok" THEN d + 1 ELSE d, L)
         IN  [d |-> rest.d,
              ok |-> rest.ok + (IF r = "ok" THEN 1 ELSE 0),
              failed |-> rest.failed + (IF r = "failed" THEN 1 ELSE 0),
              ret |-> rest.ret]

\* lines 873, 877: only _download_user_posts counts into the statistics.
stats_after_items(st, sc, w) ==
    IF sc = "post"
    THEN [st EXCEPT !.success = @ + w.ok, !.failed = @ + w.failed]
    ELSE st

\* The coroutines that catch Exception around their whole body
\* (lines 793, 1158, 1287).
Catches == {"download_user_page", "download_mix", "download_music"}

Max(S) == CHOOSE x \in S : \A y \in S : y <= x

\* An exception raised in the top frame: the innermost frame that catches
\* it logs it and returns False to its caller; with no such frame the
\* exception leaves run().
Unwind(st) ==
    LET ks == {k \in 1..Len(st) : st[k] \in Catches}
    IN  IF ks = {}
        THEN [abort |-> TRUE, stack |-> <<>>]
        ELSE [abort |-> FALSE, stack |-> SubSeq(st, 1, Max(ks) - 1)]

\* lines 773-781: what download_user_page adds to stats.total.
RECURSIVE SumOver(_, _)
SumOver(S, n) ==
    IF S = {} THEN 0
    ELSE LET x == CHOOSE y \in S : TRUE IN n + SumOver(S \ {x}, n)

InMode(m) == \E k \in 1..Len(mode) : mode[k] = m

total_posts ==
    SumOver({m \in {"post", "like", "mix"} : InMode(m)},
            IF number = 0 THEN 1 ELSE number)

\* lines 441-443: _fetch_video_info catches every Exception (lines 474-555)
\* and returns, so execute_with_retry calls it once and returns what it
\* gave; with max_retries = 0 the loop body is never run.
fetch_info_calls == IF max_retries > 0 THEN 1 ELSE 0

\* How download_single_video goes: no ID (lines 419-422), raise None out
\* of execute_with_retry, no video_info (445-448), or the result of
\* _download_media_files (454-463).
single_result(kind, info, success) ==
    IF kind = "video_no_id" THEN "no_id"
    ELSE IF max_retries = 0 THEN "exception"
    ELSE IF info = "None" THEN "no_info"
    ELSE IF success THEN "ok" ELSE "media_failed"

\* lines 445-470: the statistics after download_single_video
\* (first, a variant without the finally clause)
stats_after_single_no_finally(st, result) ==
    CASE result = "no_id" -> st
      [] result = "ok" -> [st EXCEPT !.success = @ + 1]
      [] OTHER -> [st EXCEPT !.failed = @ + 1]

stats_after_single(st, result) ==
    CASE result = "no_id" -> [st EXCEPT !.total = @ + 1]
      [] result = "ok" -> [st EXCEPT !.total = @ + 1, !.success = @ + 1]
      [] OTHER -> [st EXCEPT !.total = @ + 1, !.failed = @ + 1]

AtLink(kinds) ==
    /\ rpc = "running"
    /\ stack = <<>>
    /\ rstep = "dispatch"
    /\ linkIdx <= Len(links)
    /\ links[linkIdx] \in kinds

\* A walker is entered: its cursor, counter and the log of walks.
EnterWalker(frames, sc) ==
    /\ stack' = stack \o frames
    /\ walks' = Append(walks, [link |-> linkIdx, scope |-> sc])
    /\ w_downloaded' = 0
    /\ w_pages' = 0

\* lines 1416-1417 and 406-470
run_single_video ==
    /\ AtLink({"video", "video_no_id"})
    /\ \E info \in {"dict", "None"}, success \in BOOLEAN :
        LET result == single_result(links[linkIdx], info, success)
        IN  /\ last_single' = result
            /\ info_calls' = IF result \in {"no_id", "exception"}
                             THEN info_calls
                             ELSE info_calls + fetch_info_calls
            /\ stats' = stats_after_single(stats, result)
    /\ rstep' = "end"
    /\ last_page' = "-"
    /\ UNCHANGED <<runCfg, linkIdx, stack, modeIdx, walkerLocals, mixLocals,
                   walks, raised, rpc>>
    /\ UNCHANGED notRun

\* lines 1418-1419 and 758-781: download_user_page up to its for loop
run_user_page ==
    /\ AtLink({"user"})
    /\ stats' = [stats EXCEPT !.total = @ + total_posts]
    /\ stack' = <<"download_user_page">>
    /\ modeIdx' = 1
    /\ rstep' = "likes"
    /\ last_page' = "-"
    /\ UNCHANGED <<runCfg, linkIdx, walkerLocals, mixLocals, walks, info_calls,
                   last_single, raised, rpc>>
    /\ UNCHANGED notRun

\* lines 783-791: the for loop of download_user_page, and its return
user_page_mode ==
    /\ rpc = "running"
    /\ stack # <<>> /\ Top(stack) = "download_user_page"
    /\ IF modeIdx <= Len(mode)
       THEN /\ modeIdx' = modeIdx + 1
            /\ CASE mode[modeIdx] = "post" ->
                      EnterWalker(<<"_download_user_posts">>, "post")
                      /\ UNCHANGED mixLocals
                 [] mode[modeIdx] = "like" ->
                      EnterWalker(<<"_download_user_likes">>, "like")
                      /\ UNCHANGED mixLocals
                 [] mode[modeIdx] = "mix" ->
                      /\ stack' = Append(stack, "_download_user_mixes")
                      /\ walks' = Append(walks, [link |-> linkIdx, scope |-> "mixes"])
                      /\ fetched' = 0 /\ mix_left' = 0
                      /\ mix_more' = FALSE /\ mix_pages' = 0
                      /\ UNCHANGED walkerLocals
       ELSE /\ stack' = Front(stack)
            /\ UNCHANGED <<modeIdx, walks, walkerLocals, mixLocals>>
    /\ last_page' = "-"
    /\ UNCHANGED <<runCfg, linkIdx, rstep, info_calls, last_single, raised, rpc, stats>>
    /\ UNCHANGED notRun

\* lines 1421-1425: run() calls _download_user_likes itself
run_user_likes ==
    /\ rpc = "running" /\ stack = <<>> /\ rstep = "likes"
    /\ IF InMode("like")
       THEN EnterWalker(<<"_download_user_likes">>, "like")
       ELSE UNCHANGED <<stack, walks, walkerLocals>>
    /\ rstep' = "mixes"
    /\ last_page' = "-"
    /\ UNCHANGED <<runCfg, linkIdx, modeIdx, mixLocals, info_calls, last_single,
                   raised, rpc, stats>>
    /\ UNCHANGED notRun

\* lines 1426-1429: run() calls _download_user_mixes itself
run_user_mixes ==
    /\ rpc = "running" /\ stack = <<>> /\ rstep = "mixes"
    /\ IF InMode("mix")
       THEN /\ stack' = <<"_download_user_mixes">>
            /\ walks' = Append(walks, [link |-> linkIdx, scope |-> "mixes"])
            /\ fetched' = 0 /\ mix_left' = 0
            /\ mix_more' = FALSE /\ mix_pages' = 0
       ELSE UNCHANGED <<stack, walks, mixLocals>>
    /\ rstep' = "end"
    /\ last_page' = "-"
    /\ UNCHANGED <<runCfg, linkIdx, modeIdx, walkerLocals, info_calls,
                   last_single, raised, rpc, stats>>
    /\ UNCHANGED notRun

\* lines 1430-1431 and 1146-1156: download_mix up to its walker
run_mix ==
    /\ AtLink({"mix"})
    /\ EnterWalker(<<"download_mix", "_download_mix_by_id">>, "mix")
    /\ rstep' = "end"
    /\ last_page' = "-"
    /\ UNCHANGED <<runCfg, linkIdx, modeIdx, mixLocals, info_calls, last_single,
                   raised, rpc, stats>>
    /\ UNCHANGED notRun

\* line 1157: download_mix returns True
download_mix_return ==
    /\ rpc = "running"
    /\ stack # <<>> /\ Top(stack) = "download_mix"
    /\ stack' = Front(stack)
    /\ last_page' = "-"
    /\ UNCHANGED <<runCfg, linkIdx, rstep, modeIdx, walkerLocals, mixLocals, walks,
                   info_calls, last_single, raised, rpc, stats>>
    /\ UNCHANGED notRun

\* lines 1432-1433 and 1241-1259: download_music up to its loop
run_music ==
    /\ AtLink({"music"})
    /\ EnterWalker(<<"download_music">>, "music")
    /\ rstep' = "end"
    /\ last_page' = "-"
    /\ UNCHANGED <<runCfg, linkIdx, modeIdx, mixLocals, info_calls, last_single,
                   raised, rpc, stats>>
    /\ UNCHANGED notRun

\* lines 1434-1435: a content type run() does not handle
run_unsupported ==
    /\ AtLink({"live"})
    /\ rstep' = "end"
    /\ last_page' = "-"
    /\ UNCHANGED <<runCfg, linkIdx, stack, modeIdx, walkerLocals, mixLocals, walks,
                   info_calls, last_single, raised, rpc, stats>>
    /\ UNCHANGED notRun

\* The top frame returns to its caller; _download_user_mixes counts the
\* collection it called _download_mix_by_id for (lines 1083-1084).
ReturnFromWalker ==
    /\ stack' = Front(stack)
    /\ w_downloaded' = 0
    /\ w_pages' = 0
    /\ IF Len(stack) > 1 /\ stack[Len(stack) - 1] = "_download_user_mixes"
       THEN /\ fetched' = fetched + 1
            /\ mix_left' = mix_left - 1
            /\ UNCHANGED <<mix_more, mix_pages>>
       ELSE UNCHANGED mixLocals
    /\ UNCHANGED <<raised, rpc>>

\* The top frame raises.
RaiseFromWalker ==
    /\ raised' = TRUE
    /\ stack' = Unwind(stack).stack
    /\ rpc' = IF Unwind(stack).abort THEN "aborted" ELSE rpc
    /\ w_downloaded' = 0
    /\ w_pages' = 0
    /\ fetched' = 0 /\ mix_left' = 0 /\ mix_more' = FALSE /\ mix_pages' = 0

\* One turn of the while loop of a walker (lines 831-884, 949-992,
\* 1169-1186, 1261-1283): acquire, the page request, the awemes of the
\* page, and the test of has_more.
walk_page ==
    /\ rpc = "running"
    /\ stack # <<>> /\ Top(stack) \in WalkerFrames
    /\ LET sc == ScopeOf(Top(stack))
       IN  \E pg \in Pages(sc, w_pages) :
            /\ last_page' = pg.kind
            /\ CASE after_page(pg.kind) = "break" ->
                      ReturnFromWalker /\ UNCHANGED stats
                 [] after_page(pg.kind) = "raise" ->
                      RaiseFromWalker /\ UNCHANGED stats
                 [] after_page(pg.kind) = "items" ->
                      LET w == walk_items(pg.results, w_downloaded, LimitOf(sc))
                      IN  /\ stats' = stats_after_items(stats, sc, w)
                          /\ IF w.ret \/ ~pg.has_more
                             THEN ReturnFromWalker
                             ELSE /\ w_downloaded' = w.d
                                  /\ w_pages' = w_pages + 1
                                  /\ UNCHANGED <<stack, mixLocals, raised, rpc>>
    /\ UNCHANGED <<runCfg, linkIdx, rstep, modeIdx, walks, info_calls, last_single>>
    /\ UNCHANGED notRun

\* lines 1066-1074 and 1086-1088: _download_user_mixes at the head of its
\* while loop or after the last collection of a list page: the break on
\* has_more, or the request of a list page (_fetch_user_mix_list gives
\* None unless the document has status_code 0, lines 1117-1142).
mixes_page ==
    /\ rpc = "running"
    /\ stack # <<>> /\ Top(stack) = "_download_user_mixes"
    /\ mix_left = 0
    /\ IF mix_pages > 0 /\ ~mix_more
       THEN /\ stack' = Front(stack)
            /\ last_page' = "-"
            /\ fetched' = 0 /\ mix_left' = 0 /\ mix_more' = FALSE /\ mix_pages' = 0
       ELSE \E kind \in {"none", "empty", "items"} :
            /\ last_page' = kind
            /\ IF after_page(kind) = "break"
               THEN /\ stack' = Front(stack)
                    /\ fetched' = 0 /\ mix_left' = 0
                    /\ mix_more' = FALSE /\ mix_pages' = 0
               ELSE /\ mix_left' \in 1..MaxMixes
                    /\ mix_more' \in HasMoreAfter(mix_pages)
                    /\ mix_pages' = mix_pages + 1
                    /\ UNCHANGED <<stack, fetched>>
    /\ UNCHANGED <<runCfg, linkIdx, rstep, modeIdx, walkerLocals, walks, info_calls,
                   last_single, raised, rpc, stats>>
    /\ UNCHANGED notRun

\* lines 1076-1083: the next collection of the list page: the limit test,
\* or the call of _download_mix_by_id
mixes_item ==
    /\ rpc = "running"
    /\ stack # <<>> /\ Top(stack) = "_download_user_mixes"
    /\ mix_left > 0
    /\ IF number > 0 /\ fetched >= number
       THEN /\ stack' = Front(stack)
            /\ fetched' = 0 /\ mix_left' = 0 /\ mix_more' = FALSE /\ mix_pages' = 0
            /\ UNCHANGED <<walks, walkerLocals>>
       ELSE /\ stack' = Append(stack, "_download_mix_by_id")
            /\ w_downloaded' = 0
            /\ w_pages' = 0
            /\ UNCHANGED <<walks, mixLocals>>
    /\ last_page' = "-"
    /\ UNCHANGED <<runCfg, linkIdx, rstep, modeIdx, info_calls, last_single,
                   raised, rpc, stats>>
    /\ UNCHANGED notRun

\* lines 1437-1439: the link is done
run_link_end ==
    /\ rpc = "running" /\ stack = <<>> /\ rstep = "end"
    /\ linkIdx' = linkIdx + 1
    /\ rstep' = "dispatch"
    /\ last_page' = "-"
    /\ UNCHANGED <<runCfg, stack, modeIdx, walkerLocals, mixLocals, walks,
                   info_calls, last_single, raised, rpc, stats>>
    /\ UNCHANGED notRun

\* lines 1397-1399 and 1441-1442: no link (left) to work on
run_finish ==
    /\ rpc = "running" /\ stack = <<>> /\ rstep = "dispatch"
    /\ linkIdx > Len(links)
    /\ rpc' = "finished"
    /\ last_page' = "-"
    /\ UNCHANGED <<runCfg, linkIdx, rstep, stack, modeIdx, walkerLocals, mixLocals,
                   walks, info_calls, last_single, raised, stats>>
    /\ UNCHANGED notRun

\* run() is called on a new UnifiedDownloader (lines 141-165): the
\* configuration, new statistics, retry_times 3.
RunInit ==
    /\ FileIdle
    /\ RetryIdle
    /\ RateIdle
    /\ WalkIdle
    /\ TimeIdle
    /\ CallsIdle
    /\ links \in SeqsUpTo(LinkKinds, MaxLinks)
    /\ mode \in Modes
    /\ number \in 0..MaxLimit
    /\ linkIdx = 1
    /\ rstep = "dispatch"
    /\ stack = <<>>
    /\ modeIdx = 1
    /\ w_downloaded = 0
    /\ w_pages = 0
    /\ fetched = 0
    /\ mix_left = 0
    /\ mix_more = FALSE
    /\ mix_pages = 0
    /\ walks = <<>>
    /\ info_calls = 0
    /\ last_single = "none"
    /\ last_page = "-"
    /\ raised = FALSE
    /\ rpc = "running"

RunNext ==
    \/ run_single_video
    \/ run_user_page
    \/ user_page_mode
    \/ run_user_likes
    \/ run_user_mixes
    \/ run_mix
    \/ download_mix_return
    \/ run_music
    \/ run_unsupported
    \/ walk_page
    \/ mixes_page
    \/ mixes_item
    \/ run_link_end
    \/ run_finish

SpecRun == RunInit /\ [][RunNext]_vars

\* ---------------------------------------------------------------------
\* Properties of run()
\* ---------------------------------------------------------------------

\* The walker run() or download_user_page enters for a scope of config
\* mode.
WalkOf(m) == IF m = "mix" THEN "mixes" ELSE m

Walked(i, sc) == \E j \in 1..Len(walks) : walks[j] = [link |-> i, scope |-> sc]

\* Every link has been worked on, with every walker its kind asks for.
AllWalked ==
    /\ linkIdx = Len(links) + 1
    /\ \A i \in 1..Len(links) :
        /\ links[i] = "user" => \A k \in 1..Len(mode) : Walked(i, WalkOf(mode[k]))
        /\ links[i] = "mix" => Walked(i, "mix")
        /\ links[i] = "music" => Walked(i, "music")

\* C12: a page request that gives None, or a page without items, ends
\* the walker that made it and nothing else: the walker returns to its
\* caller, no exception is raised, the statistics are left alone, run()
\* goes on; and a run in which no walker raised works on every scope of
\* every link.
C12_FailedOrEmptyPageEndsWalk ==
    /\ [][last_page' \in {"none", "empty"} =>
            /\ rpc' = "running"
            /\ raised' = raised
            /\ stack' = Front(stack)
            /\ stats' = stats]_vars
    /\ []((rpc = "finished" /\ ~raised) => AllWalked)

C12_Witness ==
    /\ last_page = "none"
    /\ ~raised
    /\ Len(links) = 2
    /\ links[1] = "user"
    /\ linkIdx = 1
    /\ mode = <<"post", "like">>
    /\ stack = <<"download_user_page">>
    /\ modeIdx = 2

\* C19: when run() has finished, the statistics satisfy
\* total = success + failed + skipped.
C19_EveryItemInOneBucket ==
    rpc = "finished" => stats.total = stats.success + stats.failed + stats.skipped

C21_NoLinkFailureAbortsRun ==
    /\ [][linkIdx' \in {linkIdx, linkIdx + 1}]_vars
    /\ [](rpc # "aborted")
    /\ [](rpc = "finished" => linkIdx = Len(links) + 1)

NoIdLinks == {i \in 1..Len(links) : links[i] = "video_no_id"}

\* C22: a link that fails at link level is recorded in the statistics:
\* every link without an extractable ID has added at least one to failed
\* or skipped when run() ends, and a music link whose first page has no
\* items adds at least one to failed or skipped before download_music
\* returns.
C22_LinkLevelFailureRecorded ==
    /\ [](rpc = "finished" =>
            stats.failed + stats.skipped >= Cardinality(NoIdLinks))
    /\ [][(stack = <<"download_music">> /\ w_pages = 0 /\ last_page' = "empty") =>
            stats'.failed + stats'.skipped > stats.failed + stats.skipped]_vars

\* C24: in a run over one video link, a metadata fetch that fails is
\* attempted max_retries times before the link is counted as failed.
C24_MetadataFetchRetried ==
    (links = <<"video">> /\ rstep = "end" /\ last_single = "no_info") =>
        info_calls = max_retries

\* C36: for a user link every scope is walked once: no walker is entered
\* twice for the same link.
C36_EachScopeWalkedOnce ==
    \A j, k \in 1..Len(walks) : j # k => walks[j] # walks[k]

\* C38: the statistics satisfy success + failed <= total.
C38_SuccessAndFailedWithinTotal ==
    stats.success + stats.failed <= stats.total

====
